---- MODULE Spec2Model ----
(***************************************************************************)
(* Dialogue orchestrator of the banking assistant                          *)
(* (src/agents/orchestrator.py), with the intent classifier                *)
(* (src/agents/router_agent.py) and the five specialist agents.            *)
(*                                                                         *)
(* Python values are represented as follows:                               *)
(*   str            a TLA+ string (SubSeq, Len and \o work on strings)     *)
(*   None / absent  the empty tuple <<>>; a present value v is <<v>>       *)
(*   float in [0,1] an integer number of hundredths (0.5 is 50)            *)
(*   list           a sequence                                             *)
(*   dict           a record, or a function whose DOMAIN is the key set    *)
(***************************************************************************)
EXTENDS Integers, Sequences, FiniteSets, TLC

VARIABLES
    conversations,  \* Orchestrator.conversations: session id -> list of exchanges
    log,            \* per session, every exchange recorded since its last clear
    call,           \* the last call: arguments, result, and whom it called
    ncalls,         \* number of process_query calls made
    flight,         \* per request thread, the process_query call it is executing
    users           \* the users table AuthService.authenticate reads and updates

vars == <<conversations, log, call, ncalls, flight, users>>

-----------------------------------------------------------------------------
(* Bounds of the model                                                     *)

\* process_query calls in Spec
MaxCalls == 2

\* process_query calls in SpecSessions
MaxSessionCalls == 3

\* exchanges recorded since the last clear in SpecLong
MaxLongTurns == 11

\* process_query calls in SpecAdvisor
MaxAdvisorCalls == 2

\* exchanges recorded since the last clear before a thread of SpecRace or
\* SpecClearRace takes no further request
MaxRaceTurns == 11

-----------------------------------------------------------------------------
(* Python string primitives                                                *)

UpperAlpha == "ABCDEFGHIJKLMNOPQRSTUVWXYZ"
LowerAlpha == "abcdefghijklmnopqrstuvwxyz"

Char(s, i) == SubSeq(s, i, i)

\* str.lower() on one character
UpperToLower ==
    [c \in {Char(UpperAlpha, i) : i \in 1..Len(UpperAlpha)} |->
        Char(LowerAlpha, CHOOSE i \in 1..Len(UpperAlpha) : Char(UpperAlpha, i) = c)]

LowerChar(c) == IF c \in DOMAIN UpperToLower THEN UpperToLower[c] ELSE c

RECURSIVE Lower(_)
\* str.lower(): character by character (computed by halves)
Lower(s) ==
    IF Len(s) = 0 THEN ""
    ELSE IF Len(s) = 1 THEN LowerChar(s)
    ELSE Lower(SubSeq(s, 1, Len(s) \div 2))
            \o Lower(SubSeq(s, Len(s) \div 2 + 1, Len(s)))

IsSpace(c) == c \in {" ", "\t", "\n", "\r"}

RECURSIVE LStrip(_)
LStrip(s) ==
    IF Len(s) > 0 /\ IsSpace(Char(s, 1)) THEN LStrip(SubSeq(s, 2, Len(s))) ELSE s

RECURSIVE RStrip(_)
RStrip(s) ==
    IF Len(s) > 0 /\ IsSpace(Char(s, Len(s))) THEN RStrip(SubSeq(s, 1, Len(s) - 1)) ELSE s

\* str.strip()
Strip(s) == RStrip(LStrip(s))

\* str.startswith(p)
StartsWith(s, p) == Len(s) >= Len(p) /\ SubSeq(s, 1, Len(p)) = p

\* p in s  (substring test)
Contains(s, p) ==
    \E i \in 1..(Len(s) - Len(p) + 1) : SubSeq(s, i, i + Len(p) - 1) = p

\* len(s.split()): the number of maximal runs of non-blank characters
WordCount(s) ==
    Cardinality({i \in 1..Len(s) :
        /\ ~IsSpace(Char(s, i))
        /\ (i = 1 \/ IsSpace(Char(s, i - 1)))})

\* s.split()[0], for a string with at least one word
FirstWord(s) ==
    LET t == LStrip(s)
        n == IF \E i \in 1..Len(t) : IsSpace(Char(t, i))
             THEN (CHOOSE i \in 1..Len(t) :
                      /\ IsSpace(Char(t, i))
                      /\ \A j \in 1..(i - 1) : ~IsSpace(Char(t, j))) - 1
             ELSE Len(t)
    IN SubSeq(t, 1, n)

\* s[:n]
Take(s, n) == SubSeq(s, 1, IF Len(s) < n THEN Len(s) ELSE n)

\* seq[-n:]
LastN(seq, n) ==
    IF Len(seq) <= n THEN seq ELSE SubSeq(seq, Len(seq) - n + 1, Len(seq))

None == <<>>
Some(v) == <<v>>
IsNone(o) == o = <<>>
Val(o) == o[1]

-----------------------------------------------------------------------------
(* Orchestrator: pure helper methods                                       *)

\* the trim threshold and window of process_query ("last 10 exchanges")
HistoryCap == 10

\* history of session s as process_query would see it (empty when unseen)
Hist(store, s) == IF s \in DOMAIN store THEN store[s] ELSE <<>>

EnderPhrases ==
    {"no", "nope", "nah", "no thanks", "no thank you",
     "nothing", "nothing else", "that's all", "that's it",
     "i'm good", "im good", "all good", "we're good",
     "thanks", "thank you", "bye", "goodbye"}

EnderPrefixes == {"no,", "nope,", "nothing,", "that's all", "thanks,"}

\* variant of _is_conversation_ender that does not trim the query
IsConversationEnderNoStrip(query) ==
    LET query_lower == Lower(query)
    IN \/ query_lower \in EnderPhrases
       \/ \E ender \in EnderPrefixes : StartsWith(query_lower, ender)

\* Orchestrator._is_conversation_ender
IsConversationEnder(query) ==
    LET query_lower == Strip(Lower(query))
    IN \/ query_lower \in EnderPhrases
       \/ \E ender \in EnderPrefixes : StartsWith(query_lower, ender)

FollowupPatterns ==
    {"yes", "yeah", "yep", "sure", "ok", "okay",
     "why", "how", "what", "when", "where",
     "tell me", "explain", "details", "more",
     "go ahead", "continue", "and", "also",
     "please", "can you"}

\* the word-count limit of _is_followup_query
FollowupMaxWords == 4

\* variant of _is_followup_query that accepts exact matches only
IsFollowupQueryExact(query, history) ==
    IF Len(history) = 0 THEN FALSE
    ELSE LET query_lower == Strip(Lower(query))
         IN IF IsConversationEnder(query_lower) THEN FALSE
            ELSE /\ WordCount(query) <= FollowupMaxWords
                 /\ query_lower \in FollowupPatterns

\* variant of _is_followup_query without the test of an empty history
IsFollowupQueryAnyHistory(query, history) ==
    LET query_lower == Strip(Lower(query))
    IN IF IsConversationEnder(query_lower) THEN FALSE
       ELSE /\ WordCount(query) <= FollowupMaxWords
            /\ \E pattern \in FollowupPatterns :
                   StartsWith(query_lower, pattern) \/ query_lower = pattern

\* Orchestrator._is_followup_query
IsFollowupQuery(query, history) ==
    IF Len(history) = 0 THEN FALSE
    ELSE LET query_lower == Strip(Lower(query))
         IN IF IsConversationEnder(query_lower) THEN FALSE
            ELSE /\ WordCount(query) <= FollowupMaxWords
                 /\ \E pattern \in FollowupPatterns :
                        StartsWith(query_lower, pattern) \/ query_lower = pattern

\* the five registered specialists: Orchestrator.__init__, self.agents
AgentName ==
    [ACCOUNT_QUERY     |-> "Account Specialist",
     TRANSACTION_QUERY |-> "Transaction Analyst",
     FINANCIAL_ADVICE  |-> "Financial Advisor",
     ANALYTICS         |-> "Analytics Specialist",
     CRM_QUERY         |-> "CRM Specialist"]

AgentKeys == DOMAIN AgentName

\* variant of the reverse table with one name misspelt
GetIntentForAgentMisspelt(agent_name) ==
    CASE agent_name = "Account Specialist"     -> "ACCOUNT_QUERY"
      [] agent_name = "Transaction Specialist" -> "TRANSACTION_QUERY"
      [] agent_name = "Financial Advisor"      -> "FINANCIAL_ADVICE"
      [] agent_name = "Analytics Specialist"   -> "ANALYTICS"
      [] agent_name = "CRM Specialist"         -> "CRM_QUERY"
      [] OTHER                                 -> "GENERAL"

\* Orchestrator._get_intent_for_agent
GetIntentForAgent(agent_name) ==
    CASE agent_name = "Account Specialist"   -> "ACCOUNT_QUERY"
      [] agent_name = "Transaction Analyst"  -> "TRANSACTION_QUERY"
      [] agent_name = "Financial Advisor"    -> "FINANCIAL_ADVICE"
      [] agent_name = "Analytics Specialist" -> "ANALYTICS"
      [] agent_name = "CRM Specialist"       -> "CRM_QUERY"
      [] OTHER                               -> "GENERAL"

\* the placeholder profile process_query substitutes when none is supplied
PlaceholderProfile(phone) ==
    [phone     |-> Some(phone),
     full_name |-> Some("Valued Customer"),
     age       |-> None,
     email     |-> None,
     address   |-> None]

\* the enhanced query handed to the classifier on a continuation turn
EnhancedQuery(query, last_exchange) ==
    "[Previous question: " \o last_exchange.user_query \o "]\n[Previous response: "
        \o Take(last_exchange.bot_response, 200) \o "...]\n[User's follow-up: "
        \o query \o "]"

\* any(w in s for w in words)
AnyIn(s, words) == \E w \in words : Contains(s, w)

\* first_name of _handle_general; the expression full_name.split()[0] fails
\* on a name made of blanks only
GeneralFirstNameRaises(profile) ==
    /\ ~IsNone(profile.full_name)
    /\ Val(profile.full_name) # ""
    /\ Val(profile.full_name) # "Valued Customer"
    /\ WordCount(Val(profile.full_name)) = 0

GeneralFirstName(profile) ==
    IF /\ ~IsNone(profile.full_name)
       /\ Val(profile.full_name) # ""
       /\ Val(profile.full_name) # "Valued Customer"
    THEN FirstWord(Val(profile.full_name))
    ELSE ""

\* variant of _handle_general without the branch for conversation enders
HandleGeneralNoEnderBranch(query, context, history) ==
    LET query_lower   == Lower(query)
        first_name    == GeneralFirstName(Val(context.profile))
        greeting_name == IF first_name # "" THEN " " \o first_name ELSE ""
        last_response == Lower(history[Len(history)].bot_response)
    IN IF /\ Len(history) > 0
               /\ AnyIn(query_lower, {"yes", "sure", "ok", "yeah"})
               /\ (Contains(last_response, "help") \/ Contains(last_response, "assist"))
       THEN "I can help you with account balances, recent transactions, spending analysis, "
                \o "financial advice, and your personal profile. What would you like to know"
                \o greeting_name \o "?"
       ELSE IF AnyIn(query_lower, {"hello", "hi", "hey", "good morning", "good afternoon"})
       THEN (IF first_name # "" THEN "Hello" \o greeting_name \o "!" ELSE "Hello!")
                \o " How can I assist you today?"
       ELSE IF AnyIn(query_lower, {"help", "what can you do", "capabilities", "how can you help"})
       THEN "I can help you" \o greeting_name \o " with:\n"
                \o "* Account balances and status\n"
                \o "* Transaction history and spending\n"
                \o "* Financial advice and loan eligibility\n"
                \o "* Spending analytics and trends\n"
                \o "* Your personal profile and information\n\n"
                \o "What would you like to know?"
       ELSE IF AnyIn(query_lower, {"thank", "thanks", "appreciate"})
       THEN "You're welcome" \o greeting_name \o "! Let me know if you need anything else."
       ELSE "I'm here to help with your finances" \o greeting_name
                \o ". Ask me about your accounts, "
                \o "transactions, spending, financial advice, or your profile information."

\* Orchestrator._handle_general
HandleGeneral(query, context, history) ==
    LET query_lower   == Lower(query)
        first_name    == GeneralFirstName(Val(context.profile))
        greeting_name == IF first_name # "" THEN " " \o first_name ELSE ""
        last_response == Lower(history[Len(history)].bot_response)
    IN IF IsConversationEnder(query_lower)
       THEN "Great" \o greeting_name
                \o "! If you need anything else, just let me know. Have a good day!"
       ELSE IF /\ Len(history) > 0
               /\ AnyIn(query_lower, {"yes", "sure", "ok", "yeah"})
               /\ (Contains(last_response, "help") \/ Contains(last_response, "assist"))
       THEN "I can help you with account balances, recent transactions, spending analysis, "
                \o "financial advice, and your personal profile. What would you like to know"
                \o greeting_name \o "?"
       ELSE IF AnyIn(query_lower, {"hello", "hi", "hey", "good morning", "good afternoon"})
       THEN (IF first_name # "" THEN "Hello" \o greeting_name \o "!" ELSE "Hello!")
                \o " How can I assist you today?"
       ELSE IF AnyIn(query_lower, {"help", "what can you do", "capabilities", "how can you help"})
       THEN "I can help you" \o greeting_name \o " with:\n"
                \o "* Account balances and status\n"
                \o "* Transaction history and spending\n"
                \o "* Financial advice and loan eligibility\n"
                \o "* Spending analytics and trends\n"
                \o "* Your personal profile and information\n\n"
                \o "What would you like to know?"
       ELSE IF AnyIn(query_lower, {"thank", "thanks", "appreciate"})
       THEN "You're welcome" \o greeting_name \o "! Let me know if you need anything else."
       ELSE "I'm here to help with your finances" \o greeting_name
                \o ". Ask me about your accounts, "
                \o "transactions, spending, financial advice, or your profile information."

-----------------------------------------------------------------------------
(* Python dict primitives: a dict is a function over its keys              *)

EmptyDict == [k \in {} |-> None]

\* d.get(k, default)
DictGet(d, k, default) == IF k \in DOMAIN d THEN d[k] ELSE default

\* d[k] = v
DictSet(d, k, v) == [x \in DOMAIN d \cup {k} |-> IF x = k THEN v ELSE d[x]]

\* truth value of an optional string: None and '' are falsy
Truthy(o) == ~IsNone(o) /\ Val(o) # ""

-----------------------------------------------------------------------------
(* Text Completion Service and BaseAgent                                   *)

\* BaseAgent.call_llm: the outcome of the API call is either a message
\* content or an exception; an exception becomes the error variant
CallLLM(name, outcome) ==
    IF outcome.ok
    THEN [type |-> "text", content |-> outcome.content]
    ELSE [type |-> "error", content |-> "Error in " \o name \o ": " \o outcome.content]

\* BaseAgent.format_response ("metadata or {}": an empty dict stays empty)
FormatResponse(name, content, metadata) ==
    [agent |-> name, content |-> content, metadata |-> metadata]

-----------------------------------------------------------------------------
(* Intent classifier: RouterAgent                                          *)

ValidIntents ==
    {"ACCOUNT_QUERY", "TRANSACTION_QUERY", "FINANCIAL_ADVICE",
     "ANALYTICS", "CRM_QUERY", "GENERAL"}

\* text of a confidence value (hundredths) in a JSON document
ConfText(c) ==
    CASE c = 0   -> "0.0"
      [] c = 30  -> "0.3"
      [] c = 50  -> "0.5"
      [] c = 90  -> "0.9"
      [] c = 100 -> "1.0"
      [] OTHER   -> "1.5"

\* JSON documents the completion service may answer with, as json.loads
\* returns them: an object is a dict, an array is not
JsonObject(intent, confidence) ==
    [kind |-> "object",
     dict |-> [k \in {"intent", "confidence", "entities", "reasoning"} |->
                 CASE k = "intent"     -> intent
                   [] k = "confidence" -> confidence
                   [] k = "entities"   -> EmptyDict
                   [] OTHER            -> "classified"]]

JsonNoIntent ==
    [kind |-> "object",
     dict |-> [k \in {"confidence"} |-> 90]]

JsonArray == [kind |-> "array", dict |-> EmptyDict]

\* a listed intent with a confidence the prompt does not allow
JsonOverConfident == JsonObject("ACCOUNT_QUERY", 150)

JsonDocs ==
    {JsonObject(i, 90) : i \in ValidIntents \cup {"BALANCE_CHECK"}}
        \cup {JsonNoIntent, JsonArray, JsonOverConfident}

\* the text of a document
Render(doc) ==
    IF doc.kind = "array" THEN "[]"
    ELSE IF "intent" \in DOMAIN doc.dict
    THEN "{\"intent\": \"" \o doc.dict["intent"] \o "\", \"confidence\": "
            \o ConfText(doc.dict["confidence"])
            \o ", \"entities\": {}, \"reasoning\": \"classified\"}"
    ELSE "{\"confidence\": " \o ConfText(doc.dict["confidence"]) \o "}"

\* json.loads: the document whose text is s; None when s is no JSON text
JsonLoads(s) ==
    IF \E doc \in JsonDocs : Render(doc) = s
    THEN Some(CHOOSE doc \in JsonDocs : Render(doc) = s)
    ELSE None

\* str(e) of the exception the try block ends with: json.loads rejects the
\* text, or classification.get fails on a document that is not an object
ParseFailure(parsed) ==
    IF IsNone(parsed) THEN "Expecting value: line 1 column 1 (char 0)"
    ELSE "'list' object has no attribute 'get'"

\* the Markdown code fence: three backquotes in the source, written with
\* tildes here because a backquote cannot occur in a TLA+ string
Fence == "~~~"

\* s.split(d)[1] up to the next fence, for s that contains d
AfterFirst(s, d) ==
    LET i == CHOOSE k \in 1..(Len(s) - Len(d) + 1) :
                 /\ SubSeq(s, k, k + Len(d) - 1) = d
                 /\ \A j \in 1..(k - 1) : SubSeq(s, j, j + Len(d) - 1) # d
    IN SubSeq(s, i + Len(d), Len(s))

BeforeFirst(s, d) ==
    IF Contains(s, d)
    THEN LET i == CHOOSE k \in 1..(Len(s) - Len(d) + 1) :
                      /\ SubSeq(s, k, k + Len(d) - 1) = d
                      /\ \A j \in 1..(k - 1) : SubSeq(s, j, j + Len(d) - 1) # d
         IN SubSeq(s, 1, i - 1)
    ELSE s

\* removal of Markdown code fences in RouterAgent.process
StripFences(raw) ==
    LET content == Strip(raw)
    IN IF StartsWith(content, (Fence \o "json"))
       THEN Strip(BeforeFirst(AfterFirst(content, (Fence \o "json")), Fence))
       ELSE IF StartsWith(content, Fence)
       THEN Strip(BeforeFirst(AfterFirst(content, Fence), Fence))
       ELSE content

\* variant of the validation step that accepts any intent
ValidateClassificationUnchecked(classification) == classification

\* variant of the validation step that forgets to overwrite the intent and
\* lowers the confidence it finds instead of setting it
ValidateClassificationPenalty(classification) ==
    IF \/ "intent" \notin DOMAIN classification
       \/ classification["intent"] \notin ValidIntents
    THEN DictSet(DictSet(classification,
                "confidence", DictGet(classification, "confidence", 100) \div 2),
                "reasoning", "Invalid intent detected, defaulting to GENERAL")
    ELSE classification

\* variant of the validation step that supplies a missing intent but lets an
\* unlisted one through
ValidateClassificationMissingOnly(classification) ==
    IF "intent" \notin DOMAIN classification
    THEN DictSet(DictSet(DictSet(classification,
                "intent", "GENERAL"),
                "confidence", 50),
                "reasoning", "Invalid intent detected, defaulting to GENERAL")
    ELSE classification

\* the validation step of RouterAgent.process
ValidateClassification(classification) ==
    IF \/ "intent" \notin DOMAIN classification
       \/ classification["intent"] \notin ValidIntents
    THEN DictSet(DictSet(DictSet(classification,
                "intent", "GENERAL"),
                "confidence", 50),
                "reasoning", "Invalid intent detected, defaulting to GENERAL")
    ELSE classification

\* variant of RouterAgent.process without the test of the error variant: the
\* error text goes to the parser like any other content
ClassifyNoErrorBranch(outcome) ==
    LET response == CallLLM("Router", outcome)
        parsed   == JsonLoads(StripFences(response.content))
    IN IF IsNone(parsed) \/ Val(parsed).kind # "object"
       THEN FormatResponse("Router", "Intent classified",
                [intent     |-> "GENERAL",
                 confidence |-> 50,
                 entities   |-> EmptyDict,
                 reasoning  |-> "Failed to parse response: " \o ParseFailure(parsed)])
       ELSE FormatResponse("Router", "Intent classified",
                ValidateClassification(Val(parsed).dict))

\* RouterAgent.process for one completion outcome.  The context summary and
\* the query only make up the prompt; the outcome decides the result.
Classify(outcome) ==
    LET response == CallLLM("Router", outcome)
        parsed   == JsonLoads(StripFences(response.content))
    IN IF response.type = "error"
       THEN FormatResponse("Router",
                "I'm having trouble understanding your question. Could you rephrase it?",
                [intent     |-> "GENERAL",
                 confidence |-> 30,
                 entities   |-> EmptyDict,
                 reasoning  |-> "Error in classification, defaulting to GENERAL"])
       ELSE IF IsNone(parsed) \/ Val(parsed).kind # "object"
       THEN \* json.loads raised, or classification.get raised on a non-dict
            FormatResponse("Router", "Intent classified",
                [intent     |-> "GENERAL",
                 confidence |-> 50,
                 entities   |-> EmptyDict,
                 reasoning  |-> "Failed to parse response: " \o ParseFailure(parsed)])
       ELSE FormatResponse("Router", "Intent classified",
                ValidateClassification(Val(parsed).dict))

-----------------------------------------------------------------------------
(* Specialist agents.  process returns a response, or raises: the result   *)
(* records which, and how many completion calls were made.                 *)

Returned(name, content, metadata, llm_calls) ==
    [raised |-> FALSE, response |-> FormatResponse(name, content, metadata),
     llm_calls |-> llm_calls]

Raised(name, llm_calls) ==
    [raised |-> TRUE, response |-> FormatResponse(name, "", EmptyDict),
     llm_calls |-> llm_calls]

\* context.get("profile", {})
AgentProfile(context) ==
    IF IsNone(context.profile) THEN EmptyDict ELSE Val(context.profile)

\* first_name = user_name.split()[0] if user_name else ''
AgentFirstName(user_name) ==
    IF Truthy(user_name) THEN FirstWord(Val(user_name)) ELSE ""

\* split()[0] on a name made of blanks only is an IndexError
AgentFirstNameRaises(user_name) ==
    Truthy(user_name) /\ WordCount(Val(user_name)) = 0

HiPrefix(first_name) ==
    IF first_name # "" THEN "Hi " \o first_name \o "! " ELSE ""

\* variant of AccountAgent.process without the empty-accounts return
AccountProcessNoEmptyCheck(context, query, conversation_history, outcome) ==
    LET name       == "Account Specialist"
        profile    == AgentProfile(context)
        user_name  == DictGet(profile, "full_name", Some(""))
        first_name == AgentFirstName(user_name)
        address    == DictGet(profile, "address", Some(EmptyDict))
        response   == CallLLM(name, outcome)
    IN IF AgentFirstNameRaises(user_name) \/ IsNone(address) THEN Raised(name, 0)
       ELSE IF response.type = "error"
       THEN Returned(name,
                HiPrefix(first_name)
                    \o "I can't access your accounts right now. Give me a moment and try again.",
                [error |-> "llm_error"], 1)
       ELSE Returned(name, response.content,
                [accounts_analyzed |-> Len(context.accounts)], 1)

\* AccountAgent.process
AccountProcess(context, query, conversation_history, outcome) ==
    LET name       == "Account Specialist"
        profile    == AgentProfile(context)
        user_name  == DictGet(profile, "full_name", Some(""))
        first_name == AgentFirstName(user_name)
        address    == DictGet(profile, "address", Some(EmptyDict))
        accounts   == context.accounts
        response   == CallLLM(name, outcome)
    IN IF AgentFirstNameRaises(user_name) THEN Raised(name, 0)
       ELSE IF Len(accounts) = 0
       THEN Returned(name,
                HiPrefix(first_name)
                    \o "I don't see any connected accounts. You'll need to link your bank first.",
                [error |-> "no_accounts"], 0)
       ELSE IF IsNone(address)
       THEN \* address.get('city', 'Unknown') on None while building the prompt
            Raised(name, 0)
       ELSE IF response.type = "error"
       THEN Returned(name,
                HiPrefix(first_name)
                    \o "I can't access your accounts right now. Give me a moment and try again.",
                [error |-> "llm_error"], 1)
       ELSE Returned(name, response.content,
                [accounts_analyzed |-> Len(accounts)], 1)

\* variant of TransactionAgent.process that repeats a failed completion call
TransactionProcessRetries(context, query, conversation_history, outcome) ==
    LET name         == "Transaction Analyst"
        transactions == context.recent_transactions
        response     == CallLLM(name, outcome)
    IN IF Len(transactions) = 0
       THEN Returned(name,
                "I don't see any recent transactions yet. They might still be syncing from your bank.",
                [error |-> "no_transactions"], 0)
       ELSE IF response.type = "error"
       THEN Returned(name,
                "I'm having trouble pulling up your transactions. Try again in a moment.",
                [error |-> "llm_error"], 2)
       ELSE Returned(name, response.content,
                [transactions_analyzed |-> Len(transactions)], 1)

\* TransactionAgent.process
TransactionProcess(context, query, conversation_history, outcome) ==
    LET name         == "Transaction Analyst"
        transactions == context.recent_transactions
        response     == CallLLM(name, outcome)
    IN IF Len(transactions) = 0
       THEN Returned(name,
                "I don't see any recent transactions yet. They might still be syncing from your bank.",
                [error |-> "no_transactions"], 0)
       ELSE IF response.type = "error"
       THEN Returned(name,
                "I'm having trouble pulling up your transactions. Try again in a moment.",
                [error |-> "llm_error"], 1)
       ELSE Returned(name, response.content,
                [transactions_analyzed |-> Len(transactions)], 1)

AdvisorKeywords ==
    {"yes", "yeah", "yep", "sure", "ok", "okay",
     "why", "how", "explain", "details", "more",
     "tell me", "go ahead", "breakdown", "elaborate"}

\* variant of FinancialAdvisorAgent.process that compares the last agent
\* with the intent key instead of the agent's name
AdvisorProcessComparesKey(context, query, conversation_history, outcome) ==
    LET name        == "Financial Advisor"
        is_followup ==
            /\ Len(conversation_history) > 0
            /\ conversation_history[Len(conversation_history)].agent_used = "FINANCIAL_ADVICE"
            /\ AnyIn(Lower(query), AdvisorKeywords)
        response    == CallLLM(name, outcome)
    IN IF response.type = "error"
       THEN Returned(name,
                "I'm having trouble accessing your financial data right now. Could you try again?",
                [error |-> "llm_error"], 1)
       ELSE Returned(name, response.content,
                [is_followup |-> is_followup], 1)

\* variant of FinancialAdvisorAgent.process that does not look at the agent
\* of the previous turn
AdvisorProcessAnyAgent(context, query, conversation_history, outcome) ==
    LET name        == "Financial Advisor"
        is_followup ==
            /\ Len(conversation_history) > 0
            /\ AnyIn(Lower(query), AdvisorKeywords)
        response    == CallLLM(name, outcome)
    IN IF response.type = "error"
       THEN Returned(name,
                "I'm having trouble accessing your financial data right now. Could you try again?",
                [error |-> "llm_error"], 1)
       ELSE Returned(name, response.content,
                [is_followup |-> is_followup], 1)

\* FinancialAdvisorAgent.process
AdvisorProcess(context, query, conversation_history, outcome) ==
    LET name        == "Financial Advisor"
        is_followup ==
            /\ Len(conversation_history) > 0
            /\ conversation_history[Len(conversation_history)].agent_used = name
            /\ AnyIn(Lower(query), AdvisorKeywords)
        response    == CallLLM(name, outcome)
    IN IF response.type = "error"
       THEN Returned(name,
                "I'm having trouble accessing your financial data right now. Could you try again?",
                [error |-> "llm_error"], 1)
       ELSE Returned(name, response.content,
                [is_followup |-> is_followup], 1)

\* AnalyticsAgent.process (a None address is tested before it is read)
AnalyticsProcess(context, query, conversation_history, outcome) ==
    LET name       == "Analytics Specialist"
        profile    == AgentProfile(context)
        user_name  == DictGet(profile, "full_name", Some(""))
        first_name == AgentFirstName(user_name)
        response   == CallLLM(name, outcome)
    IN IF AgentFirstNameRaises(user_name) THEN Raised(name, 0)
       ELSE IF response.type = "error"
       THEN Returned(name,
                HiPrefix(first_name)
                    \o "I can't generate analytics right now. Try again in a moment.",
                [error |-> "llm_error"], 1)
       ELSE Returned(name, response.content,
                [user_name |-> user_name], 1)

\* variant of CRMAgent.process that lets a failed completion escape
CRMProcessRaises(context, query, conversation_history, outcome) ==
    LET name     == "CRM Specialist"
        response == CallLLM(name, outcome)
    IN IF response.type = "error" THEN Raised(name, 1)
       ELSE Returned(name, response.content, [has_profile |-> TRUE], 1)

\* CRMAgent.process
CRMProcess(context, query, conversation_history, outcome) ==
    LET name       == "CRM Specialist"
        profile    == AgentProfile(context)
        full_name  == DictGet(profile, "full_name", Some(""))
        first_name == AgentFirstName(full_name)
        response   == CallLLM(name, outcome)
    IN IF DOMAIN profile = {}
       THEN Returned(name,
                "I'm having trouble accessing your profile information right now. Please try again in a moment.",
                [error |-> "no_profile"], 0)
       ELSE IF AgentFirstNameRaises(full_name) THEN Raised(name, 0)
       ELSE IF response.type = "error"
       THEN Returned(name,
                "I'm having trouble accessing your information right now"
                    \o (IF first_name # "" THEN ", " \o first_name ELSE "")
                    \o ". Could you try again?",
                [error |-> "llm_error"], 1)
       ELSE Returned(name, response.content,
                [has_profile |-> TRUE], 1)

\* self.agents[intent].process(context, query, conversation_history)
AgentProcess(intent, context, query, conversation_history, outcome) ==
    CASE intent = "ACCOUNT_QUERY" ->
            AccountProcess(context, query, conversation_history, outcome)
      [] intent = "TRANSACTION_QUERY" ->
            TransactionProcess(context, query, conversation_history, outcome)
      [] intent = "FINANCIAL_ADVICE" ->
            AdvisorProcess(context, query, conversation_history, outcome)
      [] intent = "ANALYTICS" ->
            AnalyticsProcess(context, query, conversation_history, outcome)
      [] intent = "CRM_QUERY" ->
            CRMProcess(context, query, conversation_history, outcome)

-----------------------------------------------------------------------------
(* Inputs of the model                                                     *)

Phones == {"5550001", "5550002"}

SessionIds == Phones \cup {"s1"}

\* the session_id argument: omitted (None), empty, or given
SessionArgs == {None, Some(""), Some("s1")}

Queries ==
    {"Thanks",                        \* an ender phrase, in capitals
     " No, thank you ",               \* an ender prefix, with blanks around it
     "yes",                           \* a continuation phrase
     "What's my balance?",            \* three words, starts with "what"
     "How much house can I afford?"}  \* starts with "how", six words

FullProfile ==
    [phone     |-> Some("5550001"),
     full_name |-> Some("Asha Rao"),
     age       |-> Some(34),
     email     |-> Some("asha@example.com"),
     address   |-> Some([city |-> "Pune", state |-> "MH"])]

OneAccount ==
    <<[account_number |-> "1001", name |-> "Checking", type |-> "depository",
       subtype |-> "checking", balance |-> 2450, available |-> 2350,
       is_primary |-> TRUE]>>

OneTransaction ==
    <<[date |-> "2025-01-05", description |-> "Grocer", amount |-> 42,
       category |-> "Groceries", merchant |-> "Grocer"]>>

\* what DatabaseTools.get_user_context may return: an error, or a snapshot
ErrorContext ==
    [error |-> Some("user_not_found"), profile |-> None,
     accounts |-> <<>>, recent_transactions |-> <<>>, total_balance |-> 0]

Snapshot(profile, accounts, transactions) ==
    [error |-> None, profile |-> profile, accounts |-> accounts,
     recent_transactions |-> transactions,
     total_balance |-> IF Len(accounts) = 0 THEN 0 ELSE accounts[1].balance]

\* process_query tests "'profile' not in context": both kinds of snapshot are
\* inputs.  DatabaseTools.get_user_context as shipped fills 'identity' and no
\* 'profile', so with it every snapshot is of the profile-less kind.
FullContext == Snapshot(Some(FullProfile), OneAccount, OneTransaction)

Contexts ==
    {ErrorContext,
     FullContext,
     Snapshot(None, OneAccount, OneTransaction),
     Snapshot(None, <<>>, <<>>),
     Snapshot(Some(FullProfile), <<>>, <<>>)}

\* outcomes of the completion call made by the classifier
RouterOutcomes ==
    {[ok |-> FALSE, content |-> "timeout"],
     [ok |-> TRUE, content |-> "I think this is about accounts."],
     [ok |-> TRUE, content |->
         Fence \o "json\n" \o Render(JsonObject("TRANSACTION_QUERY", 90)) \o "\n" \o Fence],
     [ok |-> TRUE, content |->
         Fence \o "\n" \o Render(JsonObject("ANALYTICS", 90)) \o "\n" \o Fence]}
        \cup {[ok |-> TRUE, content |-> Render(doc)] :
                doc \in JsonDocs \ {JsonObject("TRANSACTION_QUERY", 90),
                                    JsonObject("ANALYTICS", 90)}}

\* outcomes of the completion call made by a specialist
AgentOutcomes ==
    {[ok |-> FALSE, content |-> "timeout"],
     [ok |-> TRUE, content |-> "Here is the short answer. What else can I help you with?"]}

\* RouterAgent.process on the outcomes of the model, computed once
Classified == [outcome \in RouterOutcomes |-> Classify(outcome)]

RouterProcess(context, query, outcome) ==
    IF outcome \in DOMAIN Classified THEN Classified[outcome] ELSE Classify(outcome)

-----------------------------------------------------------------------------
(* AuthService (src/auth.py)                                               *)

RECURSIVE NormalizePhone(_)
\* AuthService.normalize_phone: the digits of the phone, in order
NormalizePhone(phone) ==
    IF Len(phone) = 0 THEN ""
    ELSE IF Len(phone) = 1
    THEN (IF phone \in {"0", "1", "2", "3", "4", "5", "6", "7", "8", "9"}
          THEN phone ELSE "")
    ELSE NormalizePhone(SubSeq(phone, 1, Len(phone) \div 2))
            \o NormalizePhone(SubSeq(phone, Len(phone) \div 2 + 1, Len(phone)))

\* failed attempts at which authenticate reports the account as locked
LockThreshold == 5

\* the rows of the users table after set-up (failed_login_attempts DEFAULT 0):
\* two active users and one deactivated by the bank
UsersTable ==
    <<[phone |-> "555-0001", mpin |-> "1234", name |-> "Asha Rao",
       is_active |-> TRUE, failed_login_attempts |-> 0],
      [phone |-> "(555) 0002", mpin |-> "4321", name |-> "Ravi Shah",
       is_active |-> TRUE, failed_login_attempts |-> 0],
      [phone |-> "555 0003", mpin |-> "1234", name |-> "Mina Das",
       is_active |-> FALSE, failed_login_attempts |-> 0]>>

\* the row authenticate selects: the first whose normalized phone equals the
\* normalized argument (0 when there is none)
FindUser(table, phone) ==
    LET phone_normalized == NormalizePhone(phone)
        matching == {i \in 1..Len(table) :
                        NormalizePhone(table[i].phone) = phone_normalized}
    IN IF matching = {} THEN 0
       ELSE CHOOSE i \in matching : \A j \in matching : i <= j

\* the dict authenticate returns on a failure
AuthFailure(error) ==
    [success |-> FALSE, error |-> error, phone |-> None, name |-> None]

\* the dict authenticate returns on a success
AuthSuccess(phone, name) ==
    [success |-> TRUE, error |-> "", phone |-> Some(phone), name |-> Some(name)]

\* UPDATE users SET failed_login_attempts = <value> WHERE phone = <phone>
UpdateAttempts(table, phone, value) ==
    [j \in 1..Len(table) |->
        IF table[j].phone = phone
        THEN [table[j] EXCEPT !.failed_login_attempts = value]
        ELSE table[j]]

\* variant of authenticate without the test of a locked account
AuthenticateNoLock(table, phone, mpin) ==
    LET i    == FindUser(table, phone)
        user == table[i]
    IN IF i = 0
       THEN [users |-> table,
             result |-> AuthFailure("Phone number not found. Please check your number.")]
       ELSE IF ~user.is_active
       THEN [users  |-> table,
             result |-> AuthFailure("Account is inactive. Please contact support.")]
       ELSE IF user.mpin # mpin
       THEN [users  |-> UpdateAttempts(table, user.phone, user.failed_login_attempts + 1),
             result |-> AuthFailure("Incorrect MPIN. "
                           \o ToString(LockThreshold - (user.failed_login_attempts + 1))
                           \o " attempts remaining.")]
       ELSE [users  |-> UpdateAttempts(table, user.phone, 0),
             result |-> AuthSuccess(user.phone, user.name)]

\* AuthService.authenticate on a database that answers: the table after the
\* call and the dict returned
Authenticate(table, phone, mpin) ==
    LET i    == FindUser(table, phone)
        user == table[i]
    IN IF i = 0
       THEN [users |-> table,
             result |-> AuthFailure("Phone number not found. Please check your number.")]
       ELSE IF user.failed_login_attempts >= LockThreshold
       THEN [users  |-> table,
             result |-> AuthFailure("Account locked due to too many failed attempts. Please contact support.")]
       ELSE IF ~user.is_active
       THEN [users  |-> table,
             result |-> AuthFailure("Account is inactive. Please contact support.")]
       ELSE IF user.mpin # mpin
       THEN [users  |-> UpdateAttempts(table, user.phone, user.failed_login_attempts + 1),
             result |-> AuthFailure("Incorrect MPIN. "
                           \o ToString(LockThreshold - (user.failed_login_attempts + 1))
                           \o " attempts remaining.")]
       ELSE [users  |-> UpdateAttempts(table, user.phone, 0),
             result |-> AuthSuccess(user.phone, user.name)]

-----------------------------------------------------------------------------
(* Orchestrator.process_query                                              *)

\* variant that falls back to the phone only when session_id is None, so
\* that an empty session_id names a session of its own
ResolveSessionNoneOnly(phone, session_arg) ==
    IF IsNone(session_arg) THEN phone ELSE Val(session_arg)

\* "if not session_id: session_id = phone"
ResolveSession(phone, session_arg) ==
    IF ~Truthy(session_arg) THEN phone ELSE Val(session_arg)

\* "if session_id not in self.conversations: self.conversations[session_id] = []"
EnsureSession(store, session_id) ==
    IF session_id \in DOMAIN store THEN store
    ELSE [s \in DOMAIN store \cup {session_id} |->
            IF s = session_id THEN <<>> ELSE store[s]]

\* the profile check of process_query
EnsureProfile(context, phone) ==
    IF IsNone(context.profile)
    THEN [context EXCEPT !.profile = Some(PlaceholderProfile(phone))]
    ELSE context

\* variant of the trim that never trims
TrimHistoryNever(history) == history

\* variant of the trim that keeps the first exchanges instead of the last
TrimHistoryOldest(history) ==
    IF Len(history) > HistoryCap THEN SubSeq(history, 1, HistoryCap) ELSE history

\* the trim after the append
TrimHistory(history) ==
    IF Len(history) > HistoryCap THEN LastN(history, HistoryCap) ELSE history

\* the query handed to the classifier
RouterQuery(query, conversation_history, is_followup) ==
    LET enhanced_query ==
            IF is_followup /\ Len(conversation_history) > 0
            THEN EnhancedQuery(query, conversation_history[Len(conversation_history)])
            ELSE query
    IN IF is_followup THEN enhanced_query ELSE query

\* variant of the routing decision that always takes the classifier's intent
RouteNoOverride(context, router_query, conversation_history, is_ending, is_followup, router_outcome) ==
    LET intent_data == RouterProcess(context, router_query, router_outcome).metadata
    IN IF is_ending
       THEN [intent |-> "GENERAL", confidence |-> 100,
             router_queries |-> <<>>, classification |-> EmptyDict]
       ELSE [intent         |-> DictGet(intent_data, "intent", "GENERAL"),
             confidence     |-> DictGet(intent_data, "confidence", 0),
             router_queries |-> <<router_query>>,
             classification |-> intent_data]

\* variant of the routing decision that returns to the last agent on every
\* turn with a history, continuation or not
RouteOverrideAlways(context, router_query, conversation_history, is_ending, is_followup, router_outcome) ==
    LET routing      == RouterProcess(context, router_query, router_outcome)
        intent_data  == routing.metadata
        last_agent   == conversation_history[Len(conversation_history)].agent_used
    IN IF is_ending
       THEN [intent |-> "GENERAL", confidence |-> 100,
             router_queries |-> <<>>, classification |-> EmptyDict]
       ELSE [intent |->
                IF /\ Len(conversation_history) > 0
                   /\ last_agent # "" /\ last_agent # "General Assistant"
                THEN GetIntentForAgent(last_agent)
                ELSE DictGet(intent_data, "intent", "GENERAL"),
             confidence     |-> DictGet(intent_data, "confidence", 0),
             router_queries |-> <<router_query>>,
             classification |-> intent_data]

\* step 1 of process_query: the routing decision
Route(context, router_query, conversation_history, is_ending, is_followup, router_outcome) ==
    LET routing      == RouterProcess(context, router_query, router_outcome)
        intent_data  == routing.metadata
        last_agent   == conversation_history[Len(conversation_history)].agent_used
    IN IF is_ending
       THEN [intent |-> "GENERAL", confidence |-> 100,
             router_queries |-> <<>>, classification |-> EmptyDict]
       ELSE [intent |->
                IF /\ is_followup /\ Len(conversation_history) > 0
                   /\ last_agent # "" /\ last_agent # "General Assistant"
                THEN GetIntentForAgent(last_agent)
                ELSE DictGet(intent_data, "intent", "GENERAL"),
             confidence     |-> DictGet(intent_data, "confidence", 0),
             router_queries |-> <<router_query>>,
             classification |-> intent_data]

\* variant of the dispatch that hands the specialist the query the
\* classifier received (the enhanced query on a continuation turn)
DispatchEnhanced(intent, context, query, conversation_history, agent_outcome) ==
    LET sent   == RouterQuery(query, conversation_history,
                              IsFollowupQuery(query, conversation_history))
        result == AgentProcess(intent, context, sent, conversation_history, agent_outcome)
    IN IF intent = "GENERAL"
       THEN [raised        |-> GeneralFirstNameRaises(Val(context.profile)),
             response_text |-> HandleGeneral(query, context, conversation_history),
             agent_used    |-> "General Assistant",
             agent_calls   |-> <<>>,
             metadata      |-> EmptyDict,
             llm_calls     |-> 0,
             llm_error     |-> FALSE]
       ELSE IF intent \in AgentKeys
       THEN [raised        |-> result.raised,
             response_text |-> DictGet(result.response, "content",
                                       "We were unable to process your request."),
             agent_used    |-> AgentName[intent],
             agent_calls   |-> <<[agent |-> AgentName[intent], query |-> sent]>>,
             metadata      |-> result.response.metadata,
             llm_calls     |-> result.llm_calls,
             llm_error     |-> result.llm_calls > 0 /\ ~agent_outcome.ok]
       ELSE [raised        |-> FALSE,
             response_text |-> "Your request could not be categorized. Please rephrase the question.",
             agent_used    |-> "Fallback",
             agent_calls   |-> <<>>,
             metadata      |-> EmptyDict,
             llm_calls     |-> 0,
             llm_error     |-> FALSE]

\* step 2 of process_query: the dispatch on the resolved intent
Dispatch(intent, context, query, conversation_history, agent_outcome) ==
    LET result == AgentProcess(intent, context, query, conversation_history, agent_outcome)
    IN IF intent = "GENERAL"
       THEN [raised        |-> GeneralFirstNameRaises(Val(context.profile)),
             response_text |-> HandleGeneral(query, context, conversation_history),
             agent_used    |-> "General Assistant",
             agent_calls   |-> <<>>,
             metadata      |-> EmptyDict,
             llm_calls     |-> 0,
             llm_error     |-> FALSE]
       ELSE IF intent \in AgentKeys
       THEN [raised        |-> result.raised,
             response_text |-> DictGet(result.response, "content",
                                       "We were unable to process your request."),
             agent_used    |-> AgentName[intent],
             agent_calls   |-> <<[agent |-> AgentName[intent], query |-> query]>>,
             metadata      |-> result.response.metadata,
             llm_calls     |-> result.llm_calls,
             llm_error     |-> result.llm_calls > 0 /\ ~agent_outcome.ok]
       ELSE [raised        |-> FALSE,
             response_text |-> "Your request could not be categorized. Please rephrase the question.",
             agent_used    |-> "Fallback",
             agent_calls   |-> <<>>,
             metadata      |-> EmptyDict,
             llm_calls     |-> 0,
             llm_error     |-> FALSE]

\* the exchange stored in the history
Exchange(query, response_text, agent_used, intent) ==
    [user_query |-> query, bot_response |-> response_text,
     agent_used |-> agent_used, intent |-> intent]

FailureEnvelope(context) ==
    [success  |-> FALSE,
     error    |-> Val(context.error),
     response |-> "We were unable to access your account information. Please try logging in again."]

SuccessEnvelope(query, intent, confidence, agent_used, response_text, context, is_followup, is_ending) ==
    [success         |-> TRUE,
     query           |-> query,
     intent          |-> intent,
     confidence      |-> confidence,
     agent_used      |-> agent_used,
     response        |-> response_text,
     context_summary |-> [accounts      |-> Len(context.accounts),
                          transactions  |-> Len(context.recent_transactions),
                          total_balance |-> context.total_balance],
     is_followup     |-> is_followup,
     is_ending       |-> is_ending]

NoEnvelope == [success |-> FALSE, error |-> "", response |-> ""]

\* the record of the last call, kept for the properties: the arguments, how
\* the call ended (returned or raised), what it returned and whom it called
NoCall ==
    [op |-> "none", query |-> "", session |-> "", context |-> ErrorContext,
     phone |-> "", session_arg |-> None,
     completion |-> None, routing |-> FormatResponse("", "", EmptyDict),
     revalidated |-> EmptyDict, agent_name |-> "", intent_for_agent |-> "",
     removed |-> 0, mpin |-> "", auth |-> AuthFailure(""),
     outcome |-> "none", envelope |-> NoEnvelope,
     is_ending |-> FALSE, is_followup |-> FALSE,
     router_queries |-> <<>>, classification |-> EmptyDict,
     agent_calls |-> <<>>, metadata |-> EmptyDict,
     llm_calls |-> 0, agent_llm_error |-> FALSE]

\* variant of the early return that records the apology as an exchange
ContextUnavailableRecorded(store, session_id, base, context0) ==
    /\ conversations' =
           [store EXCEPT ![session_id] =
               Append(@, Exchange(base.query, FailureEnvelope(context0).response,
                                  "Fallback", "GENERAL"))]
    /\ log' = log
    /\ call' = [base EXCEPT !.outcome = "returned",
                            !.envelope = FailureEnvelope(context0)]

\* variant of the early return that leaves the store as it was before the
\* call, the session created above dropped again
ContextUnavailableNoSession(store, session_id, base, context0) ==
    /\ conversations' = conversations
    /\ log' = log
    /\ call' = [base EXCEPT !.outcome = "returned",
                            !.envelope = FailureEnvelope(context0)]

\* the early return of process_query when the context provider reports an
\* error: the store keeps the session created above, nothing is appended
ContextUnavailable(store, session_id, base, context0) ==
    /\ conversations' = store
    /\ log' = log
    /\ call' = [base EXCEPT !.outcome = "returned",
                            !.envelope = FailureEnvelope(context0)]

\* Orchestrator.process_query, one whole call; the completion service
\* answers the classifier with one of router_outcomes and the specialist
\* with one of agent_outcomes
ProcessQuery(phone, query, session_arg, context0, router_outcomes, agent_outcomes) ==
    LET session_id == ResolveSession(phone, session_arg)
        store      == EnsureSession(conversations, session_id)
        context    == EnsureProfile(context0, phone)
        conversation_history == store[session_id]
        is_ending    == IsConversationEnder(Lower(query))
        is_followup  == IsFollowupQuery(query, conversation_history)
        router_query == RouterQuery(query, conversation_history, is_followup)
        base == [NoCall EXCEPT !.op = "process_query", !.query = query,
                               !.session = session_id, !.context = context0,
                               !.phone = phone, !.session_arg = session_arg]
    IN IF ~IsNone(context0.error)
       THEN ContextUnavailable(store, session_id, base, context0)
       ELSE \E route \in {Route(context, router_query, conversation_history,
                                is_ending, is_followup, ro) : ro \in router_outcomes} :
            \E dispatch \in {Dispatch(route.intent, context, query,
                                      conversation_history, ao) : ao \in agent_outcomes} :
            LET exchange == Exchange(query, dispatch.response_text,
                                     dispatch.agent_used, route.intent)
                progress ==
                    [base EXCEPT !.is_ending = is_ending,
                                 !.is_followup = is_followup,
                                 !.router_queries = route.router_queries,
                                 !.classification = route.classification,
                                 !.agent_calls = dispatch.agent_calls,
                                 !.metadata = dispatch.metadata,
                                 !.llm_calls = Len(route.router_queries) + dispatch.llm_calls,
                                 !.agent_llm_error = dispatch.llm_error]
            IN IF dispatch.raised
               THEN \* the exception leaves process_query before the append
                    /\ conversations' = store
                    /\ log' = log
                    /\ call' = [progress EXCEPT !.outcome = "raised"]
               ELSE /\ conversations' =
                           [store EXCEPT ![session_id] = TrimHistory(Append(@, exchange))]
                    /\ log' = [log EXCEPT ![session_id] = Append(@, exchange)]
                    /\ call' = [progress EXCEPT
                                   !.outcome = "returned",
                                   !.envelope = SuccessEnvelope(query, route.intent,
                                        route.confidence, dispatch.agent_used,
                                        dispatch.response_text, context,
                                        is_followup, is_ending)]

\* variant of clear_conversation that empties the whole store
ClearConversationAll(session_id) ==
    /\ conversations' = EmptyDict
    /\ log' = [s \in SessionIds |-> <<>>]
    /\ call' = [NoCall EXCEPT !.op = "clear_conversation", !.session = session_id,
                              !.removed = Len(Hist(conversations, session_id))]

\* Orchestrator.clear_conversation
ClearConversation(session_id) ==
    /\ conversations' =
           IF session_id \in DOMAIN conversations
           THEN [s \in DOMAIN conversations \ {session_id} |-> conversations[s]]
           ELSE conversations
    /\ log' = [log EXCEPT ![session_id] = <<>>]
    /\ call' = [NoCall EXCEPT !.op = "clear_conversation", !.session = session_id,
                              !.removed = Len(Hist(conversations, session_id))]

-----------------------------------------------------------------------------
(* process_query statement by statement, for requests served concurrently  *)
(*                                                                         *)
(* The server handles each request on a thread of its own and all threads  *)
(* share one Orchestrator.  A thread's locals are kept in flight[t]; pc    *)
(* names the statement it executes next.  conversation_history is a        *)
(* reference to the list stored for the session: while that list is the    *)
(* one in the store (attached) the thread sees every append made to it;    *)
(* once the store holds another list or none (after a trim, a clear or a   *)
(* re-creation) the thread keeps the list as it was at that moment.        *)

Threads == {1, 2}

\* the queries of the concurrent requests, and what the completion service
\* answers the classifier and the specialist
RaceQueries == {"What's my balance?"}

RaceOutcomes == {[ok |-> TRUE, content |-> Render(JsonObject("ACCOUNT_QUERY", 90))]}

RaceAnswers == {[ok |-> TRUE, content |-> "Your balance is $2,450. Anything else?"]}

\* a thread that executes no call
Idle ==
    [pc |-> "idle", query |-> "", session |-> "",
     context |-> ErrorContext, attached |-> FALSE, fetched |-> FALSE,
     history |-> <<>>, is_ending |-> FALSE, is_followup |-> FALSE,
     router_query |-> "", intent |-> "", confidence |-> 0, error |-> "",
     response_text |-> "", agent_used |-> "", envelope |-> NoEnvelope]

\* the list conversation_history refers to, as thread t sees it now
AliasContent(t) ==
    IF flight[t].attached THEN conversations[flight[t].session]
    ELSE flight[t].history

\* the threads' locals once the list stored for session_id has been replaced
\* or removed: who referred to it keeps it with the content old
Detach(fl, session_id, old) ==
    [u \in Threads |->
        IF fl[u].attached /\ fl[u].session = session_id
        THEN [fl[u] EXCEPT !.attached = FALSE, !.history = old]
        ELSE fl[u]]

\* the call of thread t ends with an exception (KeyError: the session read
\* by self.conversations[session_id] is not in the store)
Raise(t, error) ==
    [Idle EXCEPT !.pc = "raised", !.error = error,
                 !.session = flight[t].session, !.query = flight[t].query,
                 !.fetched = flight[t].fetched]

\* a request arrives: lines 29-31
BeginCall(t) ==
    /\ flight[t].pc \in {"idle", "returned", "raised"}
    /\ Len(log[ResolveSession("5550001", None)]) < MaxRaceTurns
    /\ \E query \in RaceQueries :
           flight' = [flight EXCEPT ![t] =
                        [Idle EXCEPT !.pc = "test", !.query = query,
                                     !.session = ResolveSession("5550001", None)]]
    /\ UNCHANGED <<conversations, log, call, ncalls, users>>

\* line 34: if session_id not in self.conversations
TestSession(t) ==
    /\ flight[t].pc = "test"
    /\ flight' = [flight EXCEPT ![t].pc =
                     IF flight[t].session \notin DOMAIN conversations
                     THEN "create" ELSE "fetch"]
    /\ UNCHANGED <<conversations, log, call, ncalls, users>>

\* line 35: self.conversations[session_id] = []
CreateSession(t) ==
    LET session_id == flight[t].session
    IN /\ flight[t].pc = "create"
       /\ conversations' =
              [s \in DOMAIN conversations \cup {session_id} |->
                  IF s = session_id THEN <<>> ELSE conversations[s]]
       /\ flight' = [Detach(flight, session_id, Hist(conversations, session_id))
                        EXCEPT ![t].pc = "fetch"]
       /\ UNCHANGED <<log, call, ncalls, users>>

\* lines 38-57: the context fetch, the early return, the placeholder profile
FetchContext(t) ==
    /\ flight[t].pc = "fetch"
    /\ \E context0 \in {ErrorContext, FullContext} :
           flight' = [flight EXCEPT ![t] =
                        IF ~IsNone(context0.error)
                        THEN [Idle EXCEPT !.pc = "returned",
                                          !.session = flight[t].session,
                                          !.query = flight[t].query,
                                          !.envelope = FailureEnvelope(context0)]
                        ELSE [@ EXCEPT !.pc = "history",
                                       !.context = EnsureProfile(context0, "5550001")]]
    /\ UNCHANGED <<conversations, log, call, ncalls, users>>

\* line 60: conversation_history = self.conversations[session_id]
FetchHistory(t) ==
    /\ flight[t].pc = "history"
    /\ flight' = [flight EXCEPT ![t] =
                     IF flight[t].session \in DOMAIN conversations
                     THEN [@ EXCEPT !.pc = "detect", !.attached = TRUE,
                                    !.fetched = TRUE]
                     ELSE Raise(t, "KeyError")]
    /\ UNCHANGED <<conversations, log, call, ncalls, users>>

\* lines 63-72: is_ending, is_followup, the enhanced query
Detect(t) ==
    LET query        == flight[t].query
        history      == AliasContent(t)
        is_followup  == IsFollowupQuery(query, history)
    IN /\ flight[t].pc = "detect"
       /\ flight' = [flight EXCEPT ![t] =
                        [@ EXCEPT !.pc = "route",
                                  !.is_ending = IsConversationEnder(Lower(query)),
                                  !.is_followup = is_followup,
                                  !.router_query = RouterQuery(query, history, is_followup)]]
       /\ UNCHANGED <<conversations, log, call, ncalls, users>>

\* lines 74-88: the routing decision
RouteStep(t) ==
    /\ flight[t].pc = "route"
    /\ \E router_outcome \in RaceOutcomes :
           LET route == Route(flight[t].context, flight[t].router_query,
                              AliasContent(t), flight[t].is_ending,
                              flight[t].is_followup, router_outcome)
           IN flight' = [flight EXCEPT ![t] =
                           [@ EXCEPT !.pc = "dispatch", !.intent = route.intent,
                                     !.confidence = route.confidence,
                                     !.router_query = ""]]
    /\ UNCHANGED <<conversations, log, call, ncalls, users>>

\* lines 90-104: the dispatch; conversation_history is not read after it
DispatchStep(t) ==
    /\ flight[t].pc = "dispatch"
    /\ \E agent_outcome \in RaceAnswers :
           LET dispatch == Dispatch(flight[t].intent, flight[t].context,
                                    flight[t].query, AliasContent(t), agent_outcome)
           IN flight' = [flight EXCEPT ![t] =
                           IF dispatch.raised
                           THEN Raise(t, "AttributeError")
                           ELSE [@ EXCEPT !.pc = "append",
                                          !.attached = FALSE, !.history = <<>>,
                                          !.response_text = dispatch.response_text,
                                          !.agent_used = dispatch.agent_used]]
    /\ UNCHANGED <<conversations, log, call, ncalls, users>>

\* lines 107-112: self.conversations[session_id].append({...})
AppendTurn(t) ==
    LET session_id == flight[t].session
        exchange   == Exchange(flight[t].query, flight[t].response_text,
                               flight[t].agent_used, flight[t].intent)
    IN /\ flight[t].pc = "append"
       /\ IF session_id \in DOMAIN conversations
          THEN /\ conversations' = [conversations EXCEPT ![session_id] = Append(@, exchange)]
               /\ log' = [log EXCEPT ![session_id] = Append(@, exchange)]
               /\ flight' = [flight EXCEPT ![t].pc = "length"]
          ELSE /\ flight' = [flight EXCEPT ![t] = Raise(t, "KeyError")]
               /\ UNCHANGED <<conversations, log>>
       /\ UNCHANGED <<call, ncalls, users>>

\* line 115: if len(self.conversations[session_id]) > 10
TestLength(t) ==
    LET session_id == flight[t].session
    IN /\ flight[t].pc = "length"
       /\ flight' = [flight EXCEPT ![t] =
                        IF session_id \notin DOMAIN conversations THEN Raise(t, "KeyError")
                        ELSE [@ EXCEPT !.pc =
                                 IF Len(conversations[session_id]) > HistoryCap
                                 THEN "trim" ELSE "return"]]
       /\ UNCHANGED <<conversations, log, call, ncalls, users>>

\* line 116: self.conversations[session_id] = self.conversations[session_id][-10:]
TrimStored(t) ==
    LET session_id == flight[t].session
    IN /\ flight[t].pc = "trim"
       /\ IF session_id \in DOMAIN conversations
          THEN /\ conversations' =
                      [conversations EXCEPT ![session_id] = LastN(@, HistoryCap)]
               /\ flight' = [Detach(flight, session_id, conversations[session_id])
                                EXCEPT ![t].pc = "return"]
          ELSE /\ flight' = [flight EXCEPT ![t] = Raise(t, "KeyError")]
               /\ UNCHANGED conversations
       /\ UNCHANGED <<log, call, ncalls, users>>

\* lines 118-132: the success envelope
ReturnEnvelope(t) ==
    /\ flight[t].pc = "return"
    /\ flight' = [flight EXCEPT ![t] =
                     [Idle EXCEPT !.pc = "returned",
                                  !.session = flight[t].session,
                                  !.query = flight[t].query,
                                  !.fetched = TRUE,
                                  !.envelope =
                                      SuccessEnvelope(flight[t].query, flight[t].intent,
                                          flight[t].confidence, flight[t].agent_used,
                                          flight[t].response_text, flight[t].context,
                                          flight[t].is_followup, flight[t].is_ending)]]
    /\ UNCHANGED <<conversations, log, call, ncalls, users>>

\* one statement of the call thread t executes
Step(t) ==
    \/ BeginCall(t)
    \/ TestSession(t)
    \/ CreateSession(t)
    \/ FetchContext(t)
    \/ FetchHistory(t)
    \/ Detect(t)
    \/ RouteStep(t)
    \/ DispatchStep(t)
    \/ AppendTurn(t)
    \/ TestLength(t)
    \/ TrimStored(t)
    \/ ReturnEnvelope(t)

\* clear_conversation served by a thread of its own (lines 243-246: the
\* membership test and the del, between which no other statement of the
\* model removes the session)
ClearInFlight ==
    /\ ClearConversation("5550001")
    /\ flight' = Detach(flight, "5550001", Hist(conversations, "5550001"))
    /\ UNCHANGED <<ncalls, users>>

-----------------------------------------------------------------------------
(* Specifications                                                          *)

\* after construction: self.conversations = {}, no request in progress, the
\* users table as set up (no failed attempt counted)
Init ==
    /\ conversations = EmptyDict
    /\ log = [s \in SessionIds |-> <<>>]
    /\ call = NoCall
    /\ ncalls = 0
    /\ flight = [t \in Threads |-> Idle]
    /\ users = UsersTable

\* Spec: one customer in one session; any query, any answer of the
\* completion service to the classifier and to the specialist, the context
\* available or not
Query ==
    /\ ncalls < MaxCalls
    /\ ncalls' = ncalls + 1
    /\ \E query \in Queries, context \in {ErrorContext, FullContext} :
           ProcessQuery("5550001", query, None, context,
                        RouterOutcomes, AgentOutcomes)
    /\ UNCHANGED <<flight, users>>

Clear ==
    /\ ClearConversation("5550001")
    /\ UNCHANGED ncalls
    /\ UNCHANGED <<flight, users>>

Next == Query \/ Clear

Spec == Init /\ [][Next]_vars

\* SpecSessions: two customers, with and without a session id of their own
SessionOutcomes == {[ok |-> TRUE, content |-> Render(JsonObject("FINANCIAL_ADVICE", 90))]}

SessionQuery ==
    /\ ncalls < MaxSessionCalls
    /\ ncalls' = ncalls + 1
    /\ \E phone \in Phones, query \in {"Thanks", "yes"}, session_arg \in SessionArgs,
          context \in {ErrorContext, FullContext} :
           ProcessQuery(phone, query, session_arg, context,
                        SessionOutcomes, AgentOutcomes)
    /\ UNCHANGED <<flight, users>>

SessionClear ==
    /\ \E session_id \in SessionIds : ClearConversation(session_id)
    /\ UNCHANGED ncalls
    /\ UNCHANGED <<flight, users>>

NextSessions == SessionQuery \/ SessionClear

SpecSessions == Init /\ [][NextSessions]_vars

\* SpecSnapshots: every kind of snapshot the provider may return (profile
\* present or not, accounts and transactions present or not), each intent
SnapshotOutcomes == {[ok |-> TRUE, content |-> Render(JsonObject(i, 90))] : i \in ValidIntents}

SnapshotQuery ==
    /\ ncalls < MaxCalls
    /\ ncalls' = ncalls + 1
    /\ \E query \in {"What's my balance?", "Thanks"}, context \in Contexts :
           ProcessQuery("5550001", query, None, context,
                        SnapshotOutcomes, AgentOutcomes)
    /\ UNCHANGED <<flight, users>>

SnapshotClear ==
    /\ ClearConversation("5550001")
    /\ UNCHANGED ncalls
    /\ UNCHANGED <<flight, users>>

NextSnapshots == SnapshotQuery \/ SnapshotClear

SpecSnapshots == Init /\ [][NextSnapshots]_vars

\* SpecLong: one session, long enough for the history to be trimmed
LongOutcomes == {[ok |-> TRUE, content |-> Render(JsonObject("ACCOUNT_QUERY", 90))]}

LongAnswers == {[ok |-> TRUE, content |-> "Your balance is $2,450. Anything else?"]}

LongQuery ==
    /\ Len(log["5550001"]) < MaxLongTurns
    /\ UNCHANGED ncalls
    /\ \E query \in {"Thanks", "yes"}, context \in {ErrorContext, FullContext} :
           ProcessQuery("5550001", query, None, context,
                        LongOutcomes, LongAnswers)
    /\ UNCHANGED <<flight, users>>

LongClear ==
    /\ ClearConversation("5550001")
    /\ UNCHANGED ncalls
    /\ UNCHANGED <<flight, users>>

NextLong == LongQuery \/ LongClear

SpecLong == Init /\ [][NextLong]_vars

\* SpecAdvisor: one session whose turns go to the Financial Advisor or to the
\* Account Specialist; the queries hold a continuation phrase that is one of
\* the advisor's keywords ("yes"), continuation phrases that are not
\* ("continue", "what"), and an advisor keyword in a longer question ("how")
AdvisorQueries ==
    {"How much house can I afford?", "yes", "continue", "What's my balance?"}

AdvisorOutcomes ==
    {[ok |-> TRUE, content |-> Render(JsonObject(i, 90))] :
        i \in {"FINANCIAL_ADVICE", "ACCOUNT_QUERY"}}

AdvisorQuery ==
    /\ ncalls < MaxAdvisorCalls
    /\ ncalls' = ncalls + 1
    /\ \E query \in AdvisorQueries :
           ProcessQuery("5550001", query, None, FullContext,
                        AdvisorOutcomes, AgentOutcomes)
    /\ UNCHANGED <<flight, users>>

AdvisorClear ==
    /\ ClearConversation("5550001")
    /\ UNCHANGED ncalls
    /\ UNCHANGED <<flight, users>>

NextAdvisor == AdvisorQuery \/ AdvisorClear

SpecAdvisor == Init /\ [][NextAdvisor]_vars

\* SpecFunctions: the classifier, its validation step and the reverse table
\* of agent names, each applied on its own to every input of the model
RouterContexts == {EnsureProfile(context, "5550001") : context \in Contexts \ {ErrorContext}}

\* agent names a recorded exchange may carry, and some it may not
AgentNames ==
    {AgentName[k] : k \in AgentKeys}
        \cup {"General Assistant", "Fallback", "Router", "", "account specialist"}

RouterCall ==
    /\ \E context \in RouterContexts, query \in Queries, outcome \in RouterOutcomes :
           call' = [NoCall EXCEPT !.op = "router_process",
                                  !.query = query,
                                  !.context = context,
                                  !.completion = Some(outcome),
                                  !.routing = RouterProcess(context, query, outcome)]
    /\ UNCHANGED <<conversations, log, ncalls>>
    /\ UNCHANGED <<flight, users>>

\* the validation step applied again to the classification just returned
Revalidate ==
    /\ call.op = "router_process"
    /\ call' = [call EXCEPT !.op = "revalidate",
                            !.revalidated = ValidateClassification(call.routing.metadata)]
    /\ UNCHANGED <<conversations, log, ncalls>>
    /\ UNCHANGED <<flight, users>>

IntentLookup ==
    /\ \E agent_name \in AgentNames :
           call' = [NoCall EXCEPT !.op = "get_intent_for_agent",
                                  !.agent_name = agent_name,
                                  !.intent_for_agent = GetIntentForAgent(agent_name)]
    /\ UNCHANGED <<conversations, log, ncalls>>
    /\ UNCHANGED <<flight, users>>

NextFunctions == RouterCall \/ Revalidate \/ IntentLookup

SpecFunctions == Init /\ [][NextFunctions]_vars

\* SpecRace: two requests for the same session served concurrently
NextRace == \E t \in Threads : Step(t)

SpecRace == Init /\ [][NextRace]_vars

\* SpecClearRace: one request at a time, and clear_conversation requests for
\* its session served while it is in progress
NextClearRace == Step(1) \/ ClearInFlight

SpecClearRace == Init /\ [][NextClearRace]_vars

\* SpecAuth: log-in attempts, one after the other, for phones written as in
\* the table or otherwise, or unknown, with right and wrong MPINs
AuthPhones == {"5550001", "555-0001", "(555) 0002", "555 0003", "5559999"}

Mpins == {"1234", "4321", "0000"}

AuthCall ==
    /\ \E phone \in AuthPhones, mpin \in Mpins :
           LET done == Authenticate(users, phone, mpin)
           IN /\ users' = done.users
              /\ call' = [NoCall EXCEPT !.op = "authenticate", !.phone = phone,
                                        !.mpin = mpin, !.auth = done.result]
    /\ UNCHANGED <<conversations, log, ncalls, flight>>

SpecAuth == Init /\ [][AuthCall]_vars

-----------------------------------------------------------------------------
(* Properties                                                              *)

IsQuery == call.op = "process_query"

ContextOk == IsNone(call.context.error)

Succeeded == IsQuery /\ call.outcome = "returned" /\ call.envelope.success

\* the history of the session the last call resolved to
CallHistory == Hist(conversations, call.session)

LastExchange == CallHistory[Len(CallHistory)]

\* C1: once a call has returned, the stored history of every session holds
\* at most 10 exchanges
C1_HistoryAtMostTen ==
    \A s \in DOMAIN conversations : Len(conversations[s]) <= 10

\* C1 witness: a session that was trimmed back to 10 exchanges
C1_Witness ==
    \E s \in DOMAIN conversations :
        Len(conversations[s]) = 10 /\ Len(log[s]) > 10

\* C2: the history of a session is exactly the last min(n,10) of the n
\* exchanges recorded since its last clear, in the order they were recorded,
\* each with the fields it was recorded with
C2_HistoryIsLastTenRecorded ==
    \A s \in SessionIds :
        LET h == Hist(conversations, s)
            n == Len(log[s])
            m == IF n < 10 THEN n ELSE 10
        IN /\ Len(h) = m
           /\ \A i \in 1..m : h[i] = log[s][n - m + i]

\* C2 witness: more than 10 exchanges recorded, of different kinds
C2_Witness ==
    \E s \in DOMAIN conversations :
        /\ Len(log[s]) > 10
        /\ log[s][1] # conversations[s][1]
        /\ conversations[s][1] # conversations[s][10]

\* the ender test as the specification words it
SaysEnder(query) ==
    LET text == Strip(Lower(query))
    IN \/ text \in EnderPhrases
       \/ \E prefix \in EnderPrefixes : StartsWith(text, prefix)

\* C3: an ender query never reaches the classifier, and (the context being
\* available) yields intent GENERAL with confidence 1.0
C3_EnderIsGeneralWithoutClassifier ==
    (IsQuery /\ SaysEnder(call.query)) =>
        /\ call.router_queries = <<>>
        /\ ContextOk =>
              /\ Succeeded
              /\ call.is_ending
              /\ call.envelope.intent = "GENERAL"
              /\ call.envelope.confidence = 100

\* C3 witness: an ender given with blanks and capitals, after an earlier turn
C3_Witness ==
    /\ Succeeded
    /\ call.query = " No, thank you "
    /\ Len(CallHistory) > 1
    /\ call.envelope.intent = "GENERAL"

\* the continuation test as the specification words it
SaysContinuation(query) ==
    /\ WordCount(query) <= 4
    /\ \E phrase \in FollowupPatterns : StartsWith(Strip(Lower(query)), phrase)

\* C4: a query of at most 4 words that starts with a continuation phrase has
\* is_followup = true exactly when the session already held a turn (so false
\* on the first turn of a session, also after a clear)
C4_ContinuationIffHistory ==
    (IsQuery /\ ContextOk /\ SaysContinuation(call.query)) =>
        /\ Succeeded => /\ call.envelope.is_followup = call.is_followup
                        /\ call.is_followup = (Len(CallHistory) > 1)
        /\ call.is_followup => Len(CallHistory) > 0

\* C4 witness: the continuation detected on a second turn
C4_Witness ==
    /\ Succeeded
    /\ SaysContinuation(call.query)
    /\ call.envelope.is_followup
    /\ Len(CallHistory) = 2

\* the intent of a specialist, read off the table of registered agents
IntentOfAgent(agent_name) ==
    IF \E k \in AgentKeys : AgentName[k] = agent_name
    THEN CHOOSE k \in AgentKeys : AgentName[k] = agent_name
    ELSE "GENERAL"

\* C5: on a detected continuation the classifier is called once, on the
\* enhanced query; the resolved intent is the one mapped from the previous
\* turn's agent unless that agent is the General Assistant, and then it is
\* the classifier's intent
C5_ContinuationKeepsAgent ==
    (Succeeded /\ call.envelope.is_followup) =>
        LET previous == CallHistory[Len(CallHistory) - 1]
        IN /\ Len(call.router_queries) = 1
           /\ call.router_queries[1] # call.query
           /\ call.router_queries[1] = EnhancedQuery(call.query, previous)
           /\ previous.agent_used # "General Assistant" =>
                  call.envelope.intent = IntentOfAgent(previous.agent_used)
           /\ previous.agent_used = "General Assistant" =>
                  call.envelope.intent = call.classification["intent"]

\* C5 witness: the previous agent wins over a different classifier intent
C5_Witness ==
    /\ Succeeded
    /\ call.envelope.is_followup
    /\ CallHistory[Len(CallHistory) - 1].agent_used = "Account Specialist"
    /\ call.classification["intent"] = "FINANCIAL_ADVICE"
    /\ call.envelope.intent = "ACCOUNT_QUERY"

\* C6: a call whose context fetch fails returns the failure envelope with
\* the provider's error, calls neither the classifier nor a specialist, and
\* leaves the exchanges of every session as they were
C6_ContextErrorTouchesNothing ==
    [][(call'.op = "process_query" /\ ~IsNone(call'.context.error)) =>
          /\ call'.outcome = "returned"
          /\ call'.envelope =
                [success  |-> FALSE,
                 error    |-> Val(call'.context.error),
                 response |-> "We were unable to access your account information. Please try logging in again."]
          /\ call'.router_queries = <<>>
          /\ call'.agent_calls = <<>>
          /\ call'.llm_calls = 0
          /\ \A s \in SessionIds :
                Hist(conversations', s) = Hist(conversations, s)]_vars

\* C6 witness: the context fails while some session holds exchanges
C6_Witness ==
    /\ IsQuery
    /\ ~ContextOk
    /\ \E s \in DOMAIN conversations : Len(conversations[s]) > 0

\* C7: every call whose context fetch succeeds returns a success envelope
\* and records one exchange carrying the envelope's query, response,
\* agent_used and intent
C7_SuccessRecordsEnvelope ==
    (IsQuery /\ ContextOk) =>
        /\ Succeeded
        /\ Len(CallHistory) > 0
        /\ LastExchange = [user_query   |-> call.envelope.query,
                           bot_response |-> call.envelope.response,
                           agent_used   |-> call.envelope.agent_used,
                           intent       |-> call.envelope.intent]
        /\ log[call.session][Len(log[call.session])] = LastExchange

\* C8: with no profile in the snapshot (accounts and transactions present),
\* the call completes with a success envelope whatever the intent
C8_PlaceholderProfileCompletes ==
    (/\ IsQuery /\ ContextOk
     /\ IsNone(call.context.profile)
     /\ Len(call.context.accounts) > 0
     /\ Len(call.context.recent_transactions) > 0) =>
        (call.outcome = "returned" /\ call.envelope.success)

\* the name a specialist greets the customer of the last call with
SeenFirstName ==
    IF IsNone(call.context.profile) THEN "Valued"
    ELSE FirstWord(Val(Val(call.context.profile).full_name))

\* the fixed apologies of the specialists
Apology(agent_name) ==
    CASE agent_name = "Account Specialist" ->
            "Hi " \o SeenFirstName
                \o "! I can't access your accounts right now. Give me a moment and try again."
      [] agent_name = "Transaction Analyst" ->
            "I'm having trouble pulling up your transactions. Try again in a moment."
      [] agent_name = "Financial Advisor" ->
            "I'm having trouble accessing your financial data right now. Could you try again?"
      [] agent_name = "Analytics Specialist" ->
            "Hi " \o SeenFirstName
                \o "! I can't generate analytics right now. Try again in a moment."
      [] agent_name = "CRM Specialist" ->
            "I'm having trouble accessing your information right now, "
                \o SeenFirstName \o ". Could you try again?"
      [] OTHER -> ""

\* C9: when the completion service fails a specialist, the specialist
\* answers with its apology and metadata.error = "llm_error", the call
\* succeeds, and the exchange is recorded with the apology and the
\* specialist's name
C9_CompletionErrorIsApology ==
    (IsQuery /\ call.agent_llm_error) =>
        /\ Succeeded
        /\ Len(call.agent_calls) = 1
        /\ call.envelope.agent_used = call.agent_calls[1].agent
        /\ call.envelope.agent_used \in {AgentName[k] : k \in AgentKeys}
        /\ call.envelope.response = Apology(call.envelope.agent_used)
        /\ DictGet(call.metadata, "error", "") = "llm_error"
        /\ LastExchange.bot_response = Apology(call.envelope.agent_used)
        /\ LastExchange.agent_used = call.envelope.agent_used

\* C9 witness: the completion service fails the CRM specialist
C9_Witness ==
    /\ Succeeded
    /\ call.agent_llm_error
    /\ call.envelope.agent_used = "CRM Specialist"
    /\ LastExchange.bot_response = Apology("CRM Specialist")

\* C10: with an empty accounts list the Account specialist answers with the
\* no-accounts message and metadata.error = "no_accounts" without a
\* completion call of its own, and the exchange is recorded under its name
C10_NoAccountsMessage ==
    (/\ IsQuery /\ ContextOk
     /\ Len(call.context.accounts) = 0
     /\ Len(call.agent_calls) = 1
     /\ call.agent_calls[1].agent = "Account Specialist") =>
        /\ Succeeded
        /\ call.envelope.response =
              "Hi " \o SeenFirstName
                  \o "! I don't see any connected accounts. You'll need to link your bank first."
        /\ DictGet(call.metadata, "error", "") = "no_accounts"
        /\ call.llm_calls = Len(call.router_queries)
        /\ call.envelope.agent_used = "Account Specialist"
        /\ LastExchange.agent_used = "Account Specialist"

\* C10 witness: the Account specialist met an empty accounts list
C10_Witness ==
    /\ Succeeded
    /\ Len(call.context.accounts) = 0
    /\ call.envelope.agent_used = "Account Specialist"
    /\ IsNone(call.context.profile)

-----------------------------------------------------------------------------
(* Properties of the classifier and of the reverse table                   *)

IsRouterCall == call.op = "router_process"

\* completions that are JSON objects with an unlisted or a missing intent
UnlistedOutcomes ==
    {[ok |-> TRUE, content |-> Render(JsonObject("BALANCE_CHECK", 90))],
     [ok |-> TRUE, content |-> Render(JsonNoIntent)]}

\* completions that are no JSON text, or JSON that is not an object
UnparsableOutcomes ==
    {[ok |-> TRUE, content |-> "I think this is about accounts."],
     [ok |-> TRUE, content |-> Render(JsonArray)]}

\* C11: whatever the completion service answered, the intent the classifier
\* returns is one of the six listed intents; an unlisted or missing intent
\* is replaced by GENERAL with confidence 0.5 and the reasoning that says so
C11_IntentAlwaysListed ==
    IsRouterCall =>
        LET metadata == call.routing.metadata
        IN /\ "intent" \in DOMAIN metadata
           /\ metadata["intent"] \in ValidIntents
           /\ Val(call.completion) \in UnlistedOutcomes =>
                 /\ metadata["intent"] = "GENERAL"
                 /\ metadata["confidence"] = 50
                 /\ metadata["reasoning"] = "Invalid intent detected, defaulting to GENERAL"

\* C11 witness: the completion names an intent that is not listed
C11_Witness ==
    /\ IsRouterCall
    /\ Val(call.completion).content = Render(JsonObject("BALANCE_CHECK", 90))
    /\ call.routing.metadata["intent"] = "GENERAL"
    /\ call.routing.metadata["confidence"] = 50

\* C12: the classifier always returns a response: GENERAL with confidence
\* 0.3 on the error variant of the completion service, GENERAL with
\* confidence 0.5 when the completion cannot be parsed, both with empty
\* entities and a reasoning that names the failure
C12_ClassifierFailuresAreGeneral ==
    IsRouterCall =>
        LET metadata   == call.routing.metadata
            completion == Val(call.completion)
        IN /\ call.routing.agent = "Router"
           /\ "intent" \in DOMAIN metadata
           /\ ~completion.ok =>
                 /\ metadata["intent"] = "GENERAL"
                 /\ metadata["confidence"] = 30
                 /\ metadata["entities"] = EmptyDict
                 /\ metadata["reasoning"] = "Error in classification, defaulting to GENERAL"
           /\ completion \in UnparsableOutcomes =>
                 /\ metadata["intent"] = "GENERAL"
                 /\ metadata["confidence"] = 50
                 /\ metadata["entities"] = EmptyDict
                 /\ StartsWith(metadata["reasoning"], "Failed to parse response")

\* C12 witness: the completion service failed and the classifier answered
C12_Witness ==
    /\ IsRouterCall
    /\ ~Val(call.completion).ok
    /\ call.routing.metadata["confidence"] = 30

\* C14: the confidence of the classification a turn obtained, and the
\* confidence of every success envelope, lie between 0 and 1
C14_ConfidenceInUnitRange ==
    IsQuery =>
        /\ DOMAIN call.classification # {} =>
              /\ "confidence" \in DOMAIN call.classification
              /\ call.classification["confidence"] \in 0..100
        /\ Succeeded => call.envelope.confidence \in 0..100

\* C19: validating a classification the classifier has returned changes
\* neither its intent nor its confidence nor its reasoning
C19_ValidationIdempotent ==
    call.op = "revalidate" =>
        \A k \in {"intent", "confidence", "reasoning"} :
            /\ k \in DOMAIN call.revalidated <=> k \in DOMAIN call.routing.metadata
            /\ k \in DOMAIN call.revalidated =>
                  call.revalidated[k] = call.routing.metadata[k]

\* C19 witness: the coerced classification of an unparsable completion,
\* validated again
C19_Witness ==
    /\ call.op = "revalidate"
    /\ Val(call.completion) \in UnparsableOutcomes
    /\ call.revalidated["intent"] = "GENERAL"
    /\ call.revalidated["confidence"] = 50

\* C20: the reverse table maps the name of each registered specialist to
\* the key it is registered under, distinct keys have distinct names, and
\* every other name maps to GENERAL
C20_AgentTableBijection ==
    /\ \A k1, k2 \in AgentKeys : AgentName[k1] = AgentName[k2] => k1 = k2
    /\ call.op = "get_intent_for_agent" =>
          /\ \A k \in AgentKeys :
                call.agent_name = AgentName[k] => call.intent_for_agent = k
          /\ (\A k \in AgentKeys : call.agent_name # AgentName[k]) =>
                call.intent_for_agent = "GENERAL"

\* C20 witness: the name of a specialist looked up
C20_Witness ==
    /\ call.op = "get_intent_for_agent"
    /\ call.agent_name = "Transaction Analyst"
    /\ call.intent_for_agent = "TRANSACTION_QUERY"

-----------------------------------------------------------------------------
(* Properties of a turn whose classification failed                        *)

\* the classifier of the last call reported a transport or a parse failure
ClassifierFailed ==
    /\ IsQuery
    /\ Len(call.router_queries) = 1
    /\ LET reasoning == DictGet(call.classification, "reasoning", "")
       IN \/ reasoning = "Error in classification, defaulting to GENERAL"
          \/ StartsWith(reasoning, "Failed to parse response")

\* the agent of the turn before the last call ("" when there was none)
PreviousAgent ==
    LET before == IF Succeeded THEN Len(CallHistory) - 1 ELSE Len(CallHistory)
    IN IF before > 0 THEN CallHistory[before].agent_used ELSE ""

\* C13 as stated: a turn that is no ender and whose classification failed
\* resolves to GENERAL with confidence at most 0.5, in the envelope and in
\* the recorded turn, and returns a success envelope
C13_ClassifierFailureIsGeneral ==
    (ClassifierFailed /\ ContextOk /\ ~call.is_ending) =>
        /\ Succeeded
        /\ call.envelope.intent = "GENERAL"
        /\ call.envelope.confidence <= 50
        /\ LastExchange.intent = "GENERAL"

\* C13 amended: the failed classification is GENERAL with confidence at
\* most 0.5; a turn that does not continue a specialist's turn resolves to
\* GENERAL with that confidence and returns a success envelope; a turn
\* that continues a specialist's turn resolves to that specialist's intent
C13_ClassifierFailureDegrades ==
    (ClassifierFailed /\ ContextOk /\ ~call.is_ending) =>
        LET continues == call.is_followup /\ PreviousAgent \notin {"", "General Assistant"}
        IN /\ call.classification["intent"] = "GENERAL"
           /\ call.classification["confidence"] <= 50
           /\ ~continues =>
                 /\ Succeeded
                 /\ call.envelope.intent = "GENERAL"
                 /\ call.envelope.confidence = call.classification["confidence"]
                 /\ call.envelope.agent_used = "General Assistant"
                 /\ LastExchange.intent = "GENERAL"
           /\ (continues /\ Succeeded) =>
                 /\ call.envelope.intent = IntentOfAgent(PreviousAgent)
                 /\ call.envelope.confidence = call.classification["confidence"]
                 /\ LastExchange.intent = IntentOfAgent(PreviousAgent)

\* C13 witness: the completion service fails the classifier on a turn that
\* follows a specialist's turn without continuing it
C13_Witness ==
    /\ ClassifierFailed
    /\ Succeeded
    /\ ~call.is_followup
    /\ PreviousAgent = "Account Specialist"
    /\ call.envelope.intent = "GENERAL"
    /\ call.envelope.confidence = 30

-----------------------------------------------------------------------------
(* Frame properties of the two operations                                  *)

\* C15: clear_conversation leaves the session without a history and every
\* other session as it was, and changes nothing when the session is not
\* stored; a process_query that follows on the cleared session is no
\* continuation and, when it records its turn, leaves a history of length 1
C15_ClearRemovesOnlyThatSession ==
    [][/\ call'.op = "clear_conversation" =>
             /\ Hist(conversations', call'.session) = <<>>
             /\ call'.session \notin DOMAIN conversations'
             /\ DOMAIN conversations' = DOMAIN conversations \ {call'.session}
             /\ \A s \in DOMAIN conversations' : conversations'[s] = conversations[s]
             /\ call'.session \notin DOMAIN conversations => conversations' = conversations
       /\ ( /\ call.op = "clear_conversation"
            /\ call'.op = "process_query"
            /\ call'.session = call.session ) =>
             /\ ~call'.is_followup
             /\ Len(Hist(conversations', call'.session)) =
                    IF call'.outcome = "returned" /\ call'.envelope.success THEN 1 ELSE 0
      ]_vars

\* C15 witness: a session with a turn was cleared while another session
\* keeps its turn
C15_Witness ==
    /\ call.op = "clear_conversation"
    /\ call.removed > 0
    /\ \E s \in DOMAIN conversations : Len(conversations[s]) > 0

\* C16: process_query works on the session named by session_id, or by the
\* phone when session_id is omitted or empty; it is a continuation only if
\* that session had a turn, and the stored history of every other session
\* is unchanged, so that two customers who give no session_id share nothing
C16_QueryTouchesOnlyItsSession ==
    [][call'.op = "process_query" =>
          /\ call'.session =
                 IF IsNone(call'.session_arg) \/ Val(call'.session_arg) = ""
                 THEN call'.phone
                 ELSE Val(call'.session_arg)
          /\ call'.is_followup => Len(Hist(conversations, call'.session)) > 0
          /\ \A s \in (DOMAIN conversations \cup DOMAIN conversations') \ {call'.session} :
                 /\ s \in DOMAIN conversations
                 /\ s \in DOMAIN conversations'
                 /\ conversations'[s] = conversations[s]
      ]_vars

\* C16 witness: two customers without a session id of their own, each with
\* a history that holds only the customer's own turn
C16_Witness ==
    /\ IsQuery
    /\ Succeeded
    /\ ~Truthy(call.session_arg)
    /\ call.phone = "5550002"
    /\ call.query = "yes"
    /\ Len(Hist(conversations, "5550002")) = 1
    /\ Len(Hist(conversations, "5550001")) = 1
    /\ conversations["5550001"][1].user_query = "Thanks"

-----------------------------------------------------------------------------
(* Properties of ender turns and of continuation turns                     *)

\* the first name the General Assistant knows the customer by: none when
\* the profile is the placeholder
KnownFirstName ==
    IF IsNone(call.context.profile) THEN ""
    ELSE FirstWord(Val(Val(call.context.profile).full_name))

\* the closing pleasantry, with the first name if known
ClosingPleasantry ==
    "Great" \o (IF KnownFirstName # "" THEN " " \o KnownFirstName ELSE "")
        \o "! If you need anything else, just let me know. Have a good day!"

\* an ender turn as the claim describes it
EnderTurnAnswered ==
    /\ Succeeded
    /\ call.is_ending
    /\ call.envelope.is_ending
    /\ ~call.envelope.is_followup
    /\ call.agent_calls = <<>>
    /\ call.llm_calls = 0
    /\ call.envelope.agent_used = "General Assistant"
    /\ call.envelope.response = ClosingPleasantry
    /\ LastExchange = [user_query   |-> call.query,
                       bot_response |-> ClosingPleasantry,
                       agent_used   |-> "General Assistant",
                       intent       |-> "GENERAL"]

\* C17: an ender query, on a new session or after other turns, is answered
\* by the General Assistant itself with the closing pleasantry, is_ending
\* true and is_followup false, and adds one turn to the history; and the
\* General Assistant gives the closing pleasantry only on an ender turn
C17_EnderAnsweredInProcess ==
    [][(IsQuery /\ ContextOk)' =>
          /\ SaysEnder(call'.query) =>
                /\ EnderTurnAnswered'
                /\ Len(CallHistory') =
                      IF Len(Hist(conversations, call'.session)) < HistoryCap
                      THEN Len(Hist(conversations, call'.session)) + 1
                      ELSE HistoryCap
          /\ ( /\ Succeeded'
               /\ call'.envelope.agent_used = "General Assistant"
               /\ call'.envelope.response = ClosingPleasantry' ) =>
                /\ call'.envelope.is_ending
                /\ SaysEnder(call'.query)
      ]_vars

\* C17 witness: an ender as the very first turn of a session
C17_Witness ==
    /\ EnderTurnAnswered
    /\ call.query = "Thanks"
    /\ Len(CallHistory) = 1
    /\ Len(log[call.session]) = 1

\* the last call was "yes" on a session whose last turn was the Financial
\* Advisor's, the context being available
YesAfterAdvisor ==
    /\ IsQuery
    /\ ContextOk
    /\ call.query = "yes"
    /\ PreviousAgent = "Financial Advisor"

\* the last call was the first turn of its session and went to the
\* Financial Advisor
FirstTurnToAdvisor ==
    /\ Succeeded
    /\ Len(log[call.session]) = 1
    /\ call.envelope.agent_used = "Financial Advisor"

\* the is_followup flag in the metadata the specialist returned
MetadataIsFollowup == DictGet(call.metadata, "is_followup", FALSE)

\* what C18 says of the orchestrator in both turns
AdvisorTurnsRouted ==
    /\ YesAfterAdvisor =>
          /\ Succeeded
          /\ call.is_followup
          /\ call.envelope.is_followup
          /\ call.envelope.intent = "FINANCIAL_ADVICE"
          /\ call.envelope.agent_used = "Financial Advisor"
    /\ FirstTurnToAdvisor =>
          /\ ~call.envelope.is_followup
          /\ ~MetadataIsFollowup

\* C18 as stated: "yes" after a turn of the Financial Advisor is a
\* continuation with intent FINANCIAL_ADVICE whatever the classifier said,
\* is_followup is true in the envelope and in the Financial Advisor's
\* metadata; on the first turn both flags are false
C18_YesContinuesAdvisor ==
    /\ AdvisorTurnsRouted
    /\ YesAfterAdvisor => MetadataIsFollowup

\* C18 amended: the same, the Financial Advisor's metadata carrying
\* is_followup = true when its completion call succeeded, and only
\* error = "llm_error" when it failed
C18_YesContinuesAdvisorUnlessLLMError ==
    /\ AdvisorTurnsRouted
    /\ (YesAfterAdvisor /\ ~call.agent_llm_error) => MetadataIsFollowup
    /\ (YesAfterAdvisor /\ call.agent_llm_error) =>
          call.metadata = [error |-> "llm_error"]

\* C18 witness: the second turn, the classifier naming another intent
C18_Witness ==
    /\ YesAfterAdvisor
    /\ Succeeded
    /\ Len(CallHistory) = 2
    /\ CallHistory[1].user_query = "How much house can I afford?"
    /\ call.classification["intent"] = "ACCOUNT_QUERY"
    /\ call.envelope.intent = "FINANCIAL_ADVICE"
    /\ MetadataIsFollowup

-----------------------------------------------------------------------------
(* Properties of the queries handed on by process_query                    *)

\* C21: on a continuation turn the classifier, and only the classifier,
\* receives the enhanced query (previous question, previous response cut to
\* 200 characters, the follow-up); the specialist receives the raw query, and
\* the raw query is what the recorded exchange and the envelope carry
C21_EnhancedQueryOnlyToClassifier ==
    LET before == IF Succeeded THEN Len(CallHistory) - 1 ELSE Len(CallHistory)
    IN (IsQuery /\ ContextOk /\ call.is_followup) =>
        /\ call.router_queries = <<EnhancedQuery(call.query, CallHistory[before])>>
        /\ call.router_queries[1] # call.query
        /\ \A i \in 1..Len(call.agent_calls) : call.agent_calls[i].query = call.query
        /\ Succeeded =>
              /\ LastExchange.user_query = call.query
              /\ call.envelope.query = call.query

\* C21 witness: "yes" after a turn of the Financial Advisor, handed to the
\* classifier enhanced and to the Financial Advisor raw
C21_Witness ==
    /\ Succeeded
    /\ call.is_followup
    /\ call.query = "yes"
    /\ StartsWith(call.router_queries[1],
                  "[Previous question: How much house can I afford?]")
    /\ call.agent_calls = <<[agent |-> "Financial Advisor", query |-> "yes"]>>
    /\ LastExchange.user_query = "yes"
    /\ call.envelope.query = "yes"

\* C22: in every success envelope is_followup and is_ending are never both
\* true; an ender query is never treated as a continuation; is_followup is
\* false whenever the session history was empty when the call started
C22_FollowupAndEndingExclusive ==
    [][IsQuery' =>
          LET made    == call'
              history == Hist(conversations, made.session)
          IN /\ made.envelope.success =>
                   /\ ~(made.envelope.is_followup /\ made.envelope.is_ending)
                   /\ made.envelope.is_followup = made.is_followup
                   /\ made.envelope.is_ending = made.is_ending
                   /\ Len(history) = 0 => ~made.envelope.is_followup
             /\ (made.is_ending \/ SaysEnder(made.query)) => ~made.is_followup
             /\ Len(history) = 0 => ~made.is_followup]_vars

\* C22 witness: an ender after an earlier turn (is_ending alone), the turn
\* before it having been a continuation phrase on an empty history
C22_Witness ==
    /\ Succeeded
    /\ Len(CallHistory) = 2
    /\ CallHistory[1].user_query = "yes"
    /\ call.query = "Thanks"
    /\ call.envelope.is_ending
    /\ ~call.envelope.is_followup

-----------------------------------------------------------------------------
(* Properties of the completion calls of one process_query call            *)

\* C23: one process_query call makes at most two completion calls and never
\* repeats a failed one: none on an ender turn, exactly one classifier call on
\* every other turn, then at most one specialist call, and no specialist call
\* on a turn resolved to GENERAL
C23_AtMostTwoCompletionCalls ==
    LET classifier_calls == Len(call.router_queries)
        specialist_calls == call.llm_calls - classifier_calls
    IN (IsQuery /\ ContextOk) =>
        /\ call.llm_calls <= 2
        /\ call.is_ending => call.llm_calls = 0
        /\ ~call.is_ending =>
              /\ classifier_calls = 1
              /\ specialist_calls \in {0, 1}
              /\ specialist_calls <= Len(call.agent_calls)
        /\ (Succeeded /\ call.envelope.intent = "GENERAL") => specialist_calls = 0

\* C23 witness: the classifier answered, the specialist's completion call
\* failed once and the turn ended with the apology, two calls in all
C23_Witness ==
    /\ Succeeded
    /\ call.envelope.intent = "TRANSACTION_QUERY"
    /\ call.agent_llm_error
    /\ Len(call.router_queries) = 1
    /\ call.llm_calls = 2
    /\ call.envelope.response = Apology("Transaction Analyst")

-----------------------------------------------------------------------------
(* Properties of the recorded turns                                        *)

\* C26: every recorded turn carries one of the six intents and the agent of
\* that intent (_get_intent_for_agent(agent_used) = intent, "General
\* Assistant" exactly for GENERAL); no recorded turn is the Fallback's
C26_RecordedTurnsConsistent ==
    \A s \in DOMAIN conversations :
        \A i \in 1..Len(conversations[s]) :
            LET exchange == conversations[s][i]
            IN /\ exchange.intent \in ValidIntents
               /\ GetIntentForAgent(exchange.agent_used) = exchange.intent
               /\ exchange.agent_used = "General Assistant" <=> exchange.intent = "GENERAL"
               /\ exchange.agent_used # "Fallback"

\* C26 witness: a turn whose classifier named an intent outside the list,
\* recorded as the General Assistant's, after a specialist's turn
C26_Witness ==
    /\ Succeeded
    /\ \E outcome \in UnlistedOutcomes : call.classification = Classify(outcome).metadata
    /\ Len(CallHistory) = 2
    /\ CallHistory[1].agent_used = "CRM Specialist"
    /\ CallHistory[1].intent = "CRM_QUERY"
    /\ LastExchange.agent_used = "General Assistant"
    /\ LastExchange.intent = "GENERAL"

-----------------------------------------------------------------------------
(* Properties of the set of stored sessions                                *)

\* C27 as stated: a call that fails at the context fetch does not create a
\* session; a session id that was not in the store before the call is not in
\* the store after it
C27_FailedFetchCreatesNoSession ==
    [][(call'.op = "process_query" /\ ~IsNone(call'.context.error)) =>
          (call'.session \notin DOMAIN conversations =>
               call'.session \notin DOMAIN conversations')]_vars

\* C27 amended: a call that fails at the context fetch creates the session
\* it resolves to when that session was unseen, with an empty history, and
\* changes nothing else; the set of stored session ids grows only by the
\* session a process_query call resolves to and shrinks only by the session
\* a clear_conversation call names
C27_FailedFetchCreatesEmptySession ==
    [][/\ (call'.op = "process_query" /\ ~IsNone(call'.context.error)) =>
             /\ call'.session \in DOMAIN conversations'
             /\ conversations' = EnsureSession(conversations, call'.session)
             /\ call'.session \notin DOMAIN conversations =>
                    conversations'[call'.session] = <<>>
       /\ call'.op = "process_query" =>
             DOMAIN conversations' = DOMAIN conversations \cup {call'.session}
       /\ call'.op = "clear_conversation" =>
             DOMAIN conversations' = DOMAIN conversations \ {call'.session}]_vars

\* C27 witness: a session given by its own id, stored with an empty history
\* by a call whose context fetch failed
C27_Witness ==
    /\ IsQuery
    /\ ~ContextOk
    /\ call.session = "s1"
    /\ "s1" \in DOMAIN conversations
    /\ conversations["s1"] = <<>>
    /\ log["s1"] = <<>>

-----------------------------------------------------------------------------
(* Properties of the Financial Advisor's is_followup flag                  *)

\* C24 as stated: the is_followup of the Financial Advisor's metadata is
\* true exactly when the history is non-empty, the previous turn was the
\* Financial Advisor's and the query contains one of its keywords
C24_AdvisorFollowupExact ==
    LET invoked  == /\ IsQuery
                    /\ Len(call.agent_calls) = 1
                    /\ call.agent_calls[1].agent = "Financial Advisor"
        expected == /\ PreviousAgent = "Financial Advisor"
                    /\ \E word \in AdvisorKeywords : Contains(Lower(call.query), word)
    IN invoked => (MetadataIsFollowup <=> expected)

\* C24 amended: the same whenever the advisor's completion call succeeded;
\* when it failed the metadata is error = "llm_error" and carries no
\* is_followup
C24_AdvisorFollowupExactUnlessLLMError ==
    LET invoked  == /\ IsQuery
                    /\ Len(call.agent_calls) = 1
                    /\ call.agent_calls[1].agent = "Financial Advisor"
        expected == /\ PreviousAgent = "Financial Advisor"
                    /\ \E word \in AdvisorKeywords : Contains(Lower(call.query), word)
    IN invoked =>
        /\ ~call.agent_llm_error =>
              /\ "is_followup" \in DOMAIN call.metadata
              /\ call.metadata["is_followup"] <=> expected
              /\ PreviousAgent # "Financial Advisor" => ~call.metadata["is_followup"]
        /\ call.agent_llm_error => call.metadata = [error |-> "llm_error"]

\* C24 witness: a six-word question with the keyword "how" right after a
\* turn of the Financial Advisor: no continuation for the orchestrator, a
\* follow-up for the advisor
C24_Witness ==
    /\ Succeeded
    /\ call.agent_calls = <<[agent |-> "Financial Advisor",
                             query |-> "How much house can I afford?"]>>
    /\ ~call.agent_llm_error
    /\ PreviousAgent = "Financial Advisor"
    /\ ~call.envelope.is_followup
    /\ MetadataIsFollowup

\* C25: whenever the envelope says is_followup and the previous turn was the
\* Financial Advisor's, the Financial Advisor (its completion call having
\* succeeded, so that its metadata carries the flag) reports is_followup too
C25_AdvisorAgreesWithOrchestrator ==
    (/\ Succeeded
     /\ call.envelope.is_followup
     /\ PreviousAgent = "Financial Advisor"
     /\ ~call.agent_llm_error) =>
        /\ Len(call.agent_calls) = 1
        /\ call.agent_calls[1].agent = "Financial Advisor"
        /\ MetadataIsFollowup

-----------------------------------------------------------------------------
(* Properties of requests served concurrently                              *)

\* no call is in progress
Quiescent == \A t \in Threads : flight[t].pc \in {"idle", "returned", "raised"}

\* C28: a clear_conversation served while a process_query call for the same
\* session is between the fetch of the history and the append cannot make
\* the call raise (no call that has fetched its history ends with KeyError),
\* and once no call is in progress every stored history holds at most 10
\* exchanges
C28_ClearInFlightCannotRaise ==
    /\ \A t \in Threads :
          ~(/\ flight[t].pc = "raised"
            /\ flight[t].error = "KeyError"
            /\ flight[t].fetched)
    /\ Quiescent => \A s \in DOMAIN conversations : Len(conversations[s]) <= HistoryCap

\* C29: with two process_query calls for one session interleaved statement
\* by statement, once no call is in progress every exchange appended since
\* the session was created is in its history, up to the last 10
C29_BothTurnsRecorded ==
    Quiescent =>
        \A s \in DOMAIN conversations :
            /\ Len(conversations[s]) <= HistoryCap
            /\ Len(conversations[s]) =
                  (IF Len(log[s]) < HistoryCap THEN Len(log[s]) ELSE HistoryCap)

-----------------------------------------------------------------------------
(* Properties of AuthService.authenticate                                  *)

\* C30 as stated: once the counter of a user is 5 or more every call for
\* that user fails as locked, whatever the MPIN, and leaves the counter
\* unchanged; below 5 a wrong MPIN increases the counter by exactly 1 and the
\* right MPIN on an active account resets it to 0; no counter exceeds 5
C30_LockoutAsStated ==
    [][(call'.op = "authenticate" /\ FindUser(users, call'.phone) # 0) =>
          LET before == users[FindUser(users, call'.phone)]
              after  == users'[FindUser(users, call'.phone)]
          IN /\ before.failed_login_attempts >= 5 =>
                   /\ call'.auth = AuthFailure("Account locked due to too many failed attempts. Please contact support.")
                   /\ users' = users
             /\ (before.failed_login_attempts < 5 /\ call'.mpin # before.mpin) =>
                   after.failed_login_attempts = before.failed_login_attempts + 1
             /\ (/\ before.failed_login_attempts < 5
                 /\ before.is_active
                 /\ call'.mpin = before.mpin) =>
                   /\ call'.auth.success
                   /\ after.failed_login_attempts = 0
             /\ \A i \in 1..Len(users') : users'[i].failed_login_attempts <= 5]_vars

\* C30 amended: once a user's counter is 5 or more every call for that user
\* fails as locked, for any MPIN, and leaves the counter unchanged; below 5,
\* on an active account a wrong MPIN increases the counter by exactly 1 and
\* the right MPIN resets it to 0; on an inactive account the call fails as
\* inactive and leaves the counter unchanged; no counter exceeds 5
C30_LockoutOnActiveAccounts ==
    [][(call'.op = "authenticate" /\ FindUser(users, call'.phone) # 0) =>
          LET before == users[FindUser(users, call'.phone)]
              after  == users'[FindUser(users, call'.phone)]
          IN /\ before.failed_login_attempts >= 5 =>
                   /\ call'.auth = AuthFailure("Account locked due to too many failed attempts. Please contact support.")
                   /\ users' = users
             /\ (/\ before.failed_login_attempts < 5
                 /\ before.is_active
                 /\ call'.mpin # before.mpin) =>
                   /\ ~call'.auth.success
                   /\ after.failed_login_attempts = before.failed_login_attempts + 1
             /\ (/\ before.failed_login_attempts < 5
                 /\ before.is_active
                 /\ call'.mpin = before.mpin) =>
                   /\ call'.auth.success
                   /\ after.failed_login_attempts = 0
             /\ (before.failed_login_attempts < 5 /\ ~before.is_active) =>
                   /\ call'.auth = AuthFailure("Account is inactive. Please contact support.")
                   /\ users' = users
             /\ \A i \in 1..Len(users') : users'[i].failed_login_attempts <= 5]_vars

\* C30 witness: the right MPIN refused on an account whose counter is 5
C30_Witness ==
    /\ call.op = "authenticate"
    /\ call.phone = "5550001"
    /\ call.mpin = "1234"
    /\ users[1].mpin = "1234"
    /\ users[1].failed_login_attempts = 5
    /\ ~call.auth.success
    /\ call.auth.error =
          "Account locked due to too many failed attempts. Please contact support."

====
